---- MODULE Spec2Model ----
(***************************************************************************)
(* Model of fae (njmuggio/fae): the template compiler Template::compile,   *)
(* the bytecode VM Template::render, the binding callbacks of              *)
(* Template::libraryRender, and Library (reload, addTemplate, render).     *)
(*                                                                          *)
(* A source text is a sequence of one-character strings.  Indices into     *)
(* the source (processed, expStart) and into the tables are 0-based as in  *)
(* the C++ code; At and Sub translate to TLA+'s 1-based sequences.         *)
(***************************************************************************)
EXTENDS Integers, Sequences, FiniteSets, TLC

VARIABLES
  toks,              \* the source as a sequence of token names (the input's structure)
  buf,               \* compile's argument: the source text, character by character
  processed,         \* compile: index of the first character not yet consumed
  offsetStack,       \* compile: PCs of the placeholder jumps still to be patched
  m_fragments,       \* Template: literal fragments
  m_varNames,        \* Template: variable names
  m_includeNames,    \* Template: include targets
  m_bytecode,        \* Template: the 16-bit instructions
  phase,             \* where the program is: compile, compiled, render, done, ...
  input,             \* render: the bindings (a function from names to values)
  pc,                \* render: program counter
  stream,            \* render: the output so far
  currentIterators,  \* render: item index -> [cont, pos]
  disk,              \* the files under m_directory: path -> content, or Absent
  m_recursive,       \* Library
  m_ignoreBadTemplates, \* Library
  m_templates,       \* Library: name -> Template
  scan,              \* reload: the entries the directory iterator has still to yield
  file,              \* addTemplate: its argument
  api,               \* the call of Library in progress or last made
  discard,           \* reload: its argument
  templateName,      \* Library::render: its argument
  callStack,         \* the renders suspended in renderInclude, outermost first
  returned,          \* the caller: a string an earlier render returned, with its bindings
  other              \* the caller: the locals of a second render of the Template

libVars == <<disk, m_recursive, m_ignoreBadTemplates, m_templates, scan, file, api,
             discard, templateName, callStack>>
callerVars == <<returned, other>>
envVars == <<libVars, callerVars>>

vars == <<toks, buf, processed, offsetStack, m_fragments, m_varNames,
          m_includeNames, m_bytecode, phase, input, pc, stream, currentIterators,
          libVars, callerVars>>

compileVars == <<processed, offsetStack, m_fragments, m_varNames, m_includeNames, m_bytecode>>
renderVars == <<input, pc, stream, currentIterators>>

-----------------------------------------------------------------------------
(* Bounds of the model *)

MaxToks == 3       \* generic sources: at most this many tokens
MaxBs == 4         \* escape sources: at most this many backslashes before the command
MaxPre == 2        \* escape sources: at most this many literal characters first
MaxLit == 3        \* literal sources: at most this many characters
MaxElems == 2      \* containers hold at most this many elements
MaxOut == 24       \* a render is followed until its output is this long

-----------------------------------------------------------------------------
(* Opcodes and the 16-bit instruction word (fae.hpp, enum Opcode) *)

Halt == 0
Copy == 8192
Substitute == 16384
Immediate == 24576
FalseJump == 32768
ListEndJump == 40960
Jump == 49152
Include == 57344

WordSize == 65536
OperandSize == 8192

\* op & 0xE000
OpBits(op) == (op \div OperandSize) * OperandSize

\* op & 0x1FFF
Operand(op) == op % OperandSize

RECURSIVE BitOr(_, _)
\* a | b on non-negative integers
BitOr(a, b) ==
  IF a = 0 THEN b
  ELSE IF b = 0 THEN a
  ELSE (IF a % 2 = 1 \/ b % 2 = 1 THEN 1 ELSE 0) + 2 * BitOr(a \div 2, b \div 2)

\* the conversion to std::uint16_t of push_back and of the compound assignment
Word(n) == n % WordSize

-----------------------------------------------------------------------------
(* Characters and the five regular expressions of compile *)

Lower == {"a","b","c","d","e","f","g","h","i","j","k","l","m",
          "n","o","p","q","r","s","t","u","v","w","x","y","z"}
Upper == {"A","B","C","D","E","F","G","H","I","J","K","L","M",
          "N","O","P","Q","R","S","T","U","V","W","X","Y","Z"}
Digit == {"0","1","2","3","4","5","6","7","8","9"}
IdentStart == Lower \cup Upper \cup {"_"}
IdentChar == IdentStart \cup Digit
WhiteSpace == {" ", "\t", "\n", "\r", "\f"}
Backslash == "\\"

At(s, i) == s[i + 1]
Sub(s, b, e) == SubSeq(s, b + 1, e)

\* s has the characters w at index i
MatchLit(s, i, w) == i + Len(w) <= Len(s) /\ Sub(s, i, i + Len(w)) = w

RECURSIVE RunLen(_, _, _, _)
\* how many characters from index i on are in S (neg = FALSE) or not in S (neg = TRUE)
RunLen(s, i, S, neg) ==
  IF i < Len(s) /\ ((At(s, i) \in S) # neg) THEN 1 + RunLen(s, i + 1, S, neg) ELSE 0

\* [a-zA-Z_][a-zA-Z0-9_]* at index i: the length matched, 0 for none
IdentLen(s, i) ==
  IF i < Len(s) /\ At(s, i) \in IdentStart THEN 1 + RunLen(s, i + 1, IdentChar, FALSE) ELSE 0

CharIs(s, i, c) == i < Len(s) /\ At(s, i) = c

NoMatch == [ok |-> FALSE, len |-> 0, g1 |-> <<>>, g2 |-> <<>>]

\* ^end\)
endExp(s, r) ==
  IF MatchLit(s, r, <<"e", "n", "d", ")">>)
  THEN [ok |-> TRUE, len |-> 4, g1 |-> <<>>, g2 |-> <<>>]
  ELSE NoMatch

\* ^([a-zA-Z_][a-zA-Z0-9_]*)\)
varSubExp(s, r) ==
  LET n == IdentLen(s, r) IN
  IF n > 0 /\ CharIs(s, r + n, ")")
  THEN [ok |-> TRUE, len |-> n + 1, g1 |-> Sub(s, r, r + n), g2 |-> <<>>]
  ELSE NoMatch

\* ifExp accepting white space before the closing parenthesis
ifExp_SpaceBeforeParen(s, r) ==
  LET w == RunLen(s, r + 2, WhiteSpace, FALSE)
      n == IdentLen(s, r + 2 + w)
      t == RunLen(s, r + 2 + w + n, WhiteSpace, FALSE)
  IN
  IF MatchLit(s, r, <<"i", "f">>) /\ w > 0 /\ n > 0 /\ CharIs(s, r + 2 + w + n + t, ")")
  THEN [ok |-> TRUE, len |-> 2 + w + n + t + 1,
        g1 |-> Sub(s, r + 2 + w, r + 2 + w + n), g2 |-> <<>>]
  ELSE NoMatch

\* ^if\s+([a-zA-Z_][a-zA-Z0-9_]*)\)
ifExp(s, r) ==
  LET w == RunLen(s, r + 2, WhiteSpace, FALSE)
      n == IdentLen(s, r + 2 + w)
  IN
  IF MatchLit(s, r, <<"i", "f">>) /\ w > 0 /\ n > 0 /\ CharIs(s, r + 2 + w + n, ")")
  THEN [ok |-> TRUE, len |-> 2 + w + n + 1,
        g1 |-> Sub(s, r + 2 + w, r + 2 + w + n), g2 |-> <<>>]
  ELSE NoMatch

\* ^for\s++([a-zA-Z_][a-zA-Z0-9_]*)\s++in\s++([a-zA-Z_][a-zA-Z0-9_]*)\)
forExp(s, r) ==
  LET w1 == RunLen(s, r + 3, WhiteSpace, FALSE)
      i1 == r + 3 + w1
      n1 == IdentLen(s, i1)
      w2 == RunLen(s, i1 + n1, WhiteSpace, FALSE)
      iIn == i1 + n1 + w2
      w3 == RunLen(s, iIn + 2, WhiteSpace, FALSE)
      i2 == iIn + 2 + w3
      n2 == IdentLen(s, i2)
  IN
  IF /\ MatchLit(s, r, <<"f", "o", "r">>)
     /\ w1 > 0 /\ n1 > 0 /\ w2 > 0
     /\ MatchLit(s, iIn, <<"i", "n">>)
     /\ w3 > 0 /\ n2 > 0
     /\ CharIs(s, i2 + n2, ")")
  THEN [ok |-> TRUE, len |-> i2 + n2 + 1 - r,
        g1 |-> Sub(s, i1, i1 + n1), g2 |-> Sub(s, i2, i2 + n2)]
  ELSE NoMatch

\* ^include ([^)]+)\)
includeExp(s, r) ==
  LET m == RunLen(s, r + 8, {")"}, TRUE) IN
  IF /\ MatchLit(s, r, <<"i", "n", "c", "l", "u", "d", "e", " ">>)
     /\ m > 0
     /\ CharIs(s, r + 8 + m, ")")
  THEN [ok |-> TRUE, len |-> 8 + m + 1, g1 |-> Sub(s, r + 8, r + 8 + m), g2 |-> <<>>]
  ELSE NoMatch

\* buf.find("$(", from): the first index >= from of "$(", -1 for npos
Find(s, from) ==
  LET hits == {i \in from .. Len(s) - 2 : At(s, i) = "$" /\ At(s, i + 1) = "("} IN
  IF hits = {} THEN -1 ELSE CHOOSE i \in hits : \A j \in hits : i <= j

-----------------------------------------------------------------------------
(* The inputs: sources and bindings *)

NameX == <<"x">>
NameXs == <<"x", "s">>

\* the text of a token
TokText(t) ==
  CASE t = "a" -> <<"a">>
    [] t = "bs" -> <<Backslash>>
    [] t = "open" -> <<"$", "(">>
    [] t = "sub" -> <<"$", "(", "x", ")">>
    [] t = "if" -> <<"$", "(", "i", "f", " ", "x", ")">>
    [] t = "for" -> <<"$", "(", "f", "o", "r", " ", "x", " ", "i", "n", " ", "x", "s", ")">>
    [] t = "end" -> <<"$", "(", "e", "n", "d", ")">>
    [] t = "inc" -> <<"$", "(", "i", "n", "c", "l", "u", "d", "e", " ", "t", ")">>
    [] t = "incn" -> <<"$", "(", "i", "n", "c", "l", "u", "d", "e", " ", "n", "/", "t", ")">>
    [] t = "incu" -> <<"$", "(", "i", "n", "c", "l", "u", "d", "e", " ", "u", ")">>
    [] t = "dollar" -> <<"$">>
    [] t = "lparen" -> <<"(">>
    [] t = "rparen" -> <<")">>
    [] t = "empty" -> <<"$", "(", ")">>
    [] t = "ifsp" -> <<"$", "(", "i", "f", " ", "x", " ", ")">>
    [] t = "if2" -> <<"$", "(", "i", "f", " ", "x", " ", "a", ")">>
    [] t = "dash" -> <<"$", "(", "x", "-", "a", ")">>
    [] t = "forn" -> <<"$", "(", "f", "o", "r", " ", "x", ")">>
    [] t = "forin" -> <<"$", "(", "f", "o", "r", " ", "x", " ", "i", "n", ")">>
    [] t = "forsp" -> <<"$", "(", "f", "o", "r", " ", "x", " ", "i", "n", " ", "x", "s", " ", ")">>
    [] t = "for2" -> <<"$", "(", "f", "o", "r", " ", "x", " ", "i", "n", " ", "x", "s", " ", "a", ")">>
    [] t = "unterm" -> <<"$", "(", "x">>
    [] t = "B" -> <<"B">>
    [] t = "C" -> <<"C">>
    [] t = "D" -> <<"D">>
    [] t = "ify" -> <<"$", "(", "i", "f", " ", "y", ")">>
    [] t = "forax" -> <<"$", "(", "f", "o", "r", " ", "a", " ", "i", "n", " ", "x", "s", ")">>
    [] t = "forby" -> <<"$", "(", "f", "o", "r", " ", "b", " ", "i", "n", " ", "y", "s", ")">>
    [] t = "foray" -> <<"$", "(", "f", "o", "r", " ", "a", " ", "i", "n", " ", "y", "s", ")">>
    [] t = "suba" -> <<"$", "(", "a", ")">>
    [] t = "subb" -> <<"$", "(", "b", ")">>
    [] t = "forrows" -> <<"$", "(", "f", "o", "r", " ", "r", " ", "i", "n", " ",
                          "r", "o", "w", "s", ")">>
    [] t = "forcr" -> <<"$", "(", "f", "o", "r", " ", "c", " ", "i", "n", " ", "r", ")">>

Toks == {"a", "bs", "open", "sub", "if", "for", "end", "inc"}

RECURSIVE Flatten(_)
Flatten(ts) == IF ts = <<>> THEN <<>> ELSE TokText(Head(ts)) \o Flatten(Tail(ts))

RECURSIVE Rep(_, _)
Rep(t, n) == IF n = 0 THEN <<>> ELSE <<t>> \o Rep(t, n - 1)

LitToks == {"a", "bs", "dollar", "lparen", "rparen"}

TokSeqs(T, n) == UNION {[1 .. k -> T] : k \in 0 .. n}

\* every sequence of at most MaxToks tokens
GenericSrc == TokSeqs(Toks, MaxToks)

\* every text of at most MaxLit characters of a, backslash, $, ( and )
LiteralSrc == TokSeqs(LitToks, MaxLit)

\* literal text, a run of backslashes, then "$(" (alone or opening "$(x)"), then a tail
EscapeSrc ==
  {Rep("a", i) \o Rep("bs", m) \o cmd \o tail :
     i \in 0 .. MaxPre, m \in 0 .. MaxBs,
     cmd \in {<<"sub">>, <<"open", "sub">>},
     tail \in {<<>>, <<"a">>, <<"a", "a">>}}

Bodies == {<<>>, <<"sub">>, <<"a", "a">>, <<"a", "a", "sub">>, <<"sub", "a", "a">>,
           <<"if", "a", "a", "end">>}
Posts == {<<>>, <<"sub">>, <<"a", "a">>, <<"a", "a", "sub">>, <<"if", "a", "a", "end">>}

\* one if or for block with text before and after it
BlockSrc ==
  {pre \o <<h>> \o body \o <<"end">> \o post :
     pre \in {<<>>, <<"a", "a">>}, h \in {"if", "for"}, body \in Bodies, post \in Posts}

\* the texts after "$(" that are no command (the "invalid template" test)
BadToks == {"empty", "ifsp", "if2", "dash", "forn", "forin", "forsp", "for2", "unterm"}

\* text or commands, then a "$(" that opens no command, then a tail
InvalidSrc ==
  {pre \o <<b>> \o post :
     pre \in {<<>>, <<"a">>, <<"a", "a">>, <<"bs", "bs">>, <<"sub">>, <<"if">>},
     b \in BadToks,
     post \in {<<>>, <<"a">>, <<"sub">>}}

Sources == GenericSrc \cup LiteralSrc \cup EscapeSrc \cup BlockSrc \cup InvalidSrc

\* the values of std::variant<int, bool, std::string, std::vector<int>>
IntV(n) == [k |-> "int", n |-> n, s |-> <<>>, l |-> <<>>]
BoolV(b) == [k |-> "bool", n |-> IF b THEN 1 ELSE 0, s |-> <<>>, l |-> <<>>]
StrV(s) == [k |-> "str", n |-> 0, s |-> s, l |-> <<>>]
ListV(l) == [k |-> "list", n |-> 0, s |-> <<>>, l |-> l]
\* a std::vector<std::vector<int>>
ListsV(l) == [k |-> "lists", n |-> 0, s |-> <<>>, l |-> l]
Unbound == [k |-> "none", n |-> 0, s |-> <<>>, l |-> <<>>]

\* the container 11, 12, ... of k elements
Elems(k) == [i \in 1 .. k |-> 10 + i]

XVals == {Unbound, IntV(0), IntV(-7), BoolV(FALSE), BoolV(TRUE), StrV(<<>>), StrV(<<"h", "i">>)}
XsVals == {Unbound, IntV(5)} \cup {ListV(Elems(k)) : k \in 0 .. MaxElems}

MakeInput(xv, xsv) ==
  LET val(n) == IF n = NameX THEN xv ELSE xsv
      D == {n \in {NameX, NameXs} : val(n).k # "none"}
  IN [n \in D |-> val(n)]

Inputs == {MakeInput(xv, xsv) : xv \in XVals, xsv \in XsVals}

NoInput == MakeInput(Unbound, Unbound)

-----------------------------------------------------------------------------
(* The files and the library *)

PathT == <<"t">>
PathU == <<"u">>
PathNT == <<"n", "/", "t">>
\* the subdirectory, an entry that is no regular file
PathN == <<"n">>

Paths == {PathT, PathU, PathNT}

Absent == <<"absent">>

\* the contents a file can have: text and a variable, a source that fails to
\* compile, a loop, an escape, a lone end; the including file; the nested file
Contents(p) ==
  CASE p = PathT -> {<<"a", "a", "sub">>, <<"a", "a", "unterm">>,
                     <<"for", "if", "sub", "end", "end">>, <<"a", "bs", "sub">>, <<"end">>}
    [] p = PathU -> {<<"a", "a", "inc", "a", "a", "incn">>}
    [] p = PathNT -> {<<"a", "a">>}

Disks ==
  {d \in [Paths -> UNION {Contents(p) : p \in Paths} \cup {Absent}] :
     \A p \in Paths : d[p] \in Contents(p) \cup {Absent}}

NoTemplates == [p \in {} |-> 0]

\* no Library: the Template is used on its own
NoLibrary ==
  /\ disk = [p \in Paths |-> Absent]
  /\ m_recursive = FALSE
  /\ m_ignoreBadTemplates = FALSE
  /\ m_templates = NoTemplates
  /\ scan = {}
  /\ file = <<>>
  /\ api = "none"
  /\ discard = FALSE
  /\ templateName = <<>>
  /\ callStack = <<>>

\* the locals of a render that has not been called
NotCalled == [phase |-> "compiled", input |-> [n \in {} |-> 0], pc |-> 0, stream |-> <<>>,
              currentIterators |-> [i \in {} |-> 0]]

NothingReturned == [input |-> [n \in {} |-> 0], out |-> <<"-">>, any |-> FALSE]

\* the caller holds no result and runs no second render
OneCaller == returned = NothingReturned /\ other = NotCalled

-----------------------------------------------------------------------------
(* Template::Template(str): the members are empty and compile(str) starts *)

Init ==
  /\ NoLibrary
  /\ OneCaller
  /\ toks \in Sources
  /\ buf = Flatten(toks)
  /\ processed = 0
  /\ offsetStack = <<>>
  /\ m_fragments = <<>>
  /\ m_varNames = <<>>
  /\ m_includeNames = <<>>
  /\ m_bytecode = <<>>
  /\ phase = "compile"
  /\ input = NoInput
  /\ pc = 0
  /\ stream = <<>>
  /\ currentIterators = <<>>

-----------------------------------------------------------------------------
(* Template::addVariable, Template::addFragment *)

\* the index of name in names, appending it when it is new: [names, idx]
addVariable(names, name) ==
  LET found == {i \in 1 .. Len(names) : names[i] = name} IN
  IF found # {}
  THEN [names |-> names, idx |-> (CHOOSE i \in found : \A j \in found : i <= j) - 1]
  ELSE [names |-> Append(names, name), idx |-> Word(Len(names))]

\* addFragment without its push_back of the Copy instruction
addFragment_NoCopy(T, text) ==
  [fr |-> Append(T.fr, text), bc |-> T.bc]

\* a new fragment and the Copy instruction that emits it, on the pair [fr, bc]
addFragment(T, text) ==
  LET fr == Append(T.fr, text) IN
  [fr |-> fr, bc |-> Append(T.bc, Word(BitOr(Copy, Len(fr) - 1)))]

-----------------------------------------------------------------------------
(* Template::compile: one action per pass of the while loop, by the branch   *)
(* the pass takes                                                            *)

InLoop == phase = "compile" /\ processed < Len(buf)

expStart == Find(buf, processed)

\* The answers buf[i] == '\\' can give.  The index is a size_t: below the start
\* of the source it has wrapped around, the guards "expStart - 1 >= 0" and
\* "expStart - 2 >= 0" are always true, and the read is outside the buffer.
IsBackslashAt(i) == IF i >= 0 THEN {At(buf, i) = Backslash} ELSE BOOLEAN

\* the indices at which the pass about to run reads buf for the two backslash
\* checks: expStart - 1 always, expStart - 2 after a backslash (-1 and -2 stand
\* for the wrapped indices SIZE_MAX and SIZE_MAX - 1)
BackslashReads ==
  IF InLoop /\ expStart # -1
  THEN {expStart - 1} \cup (IF TRUE \in IsBackslashAt(expStart - 1) THEN {expStart - 2} ELSE {})
  ELSE {}

\* the literal flush is made for a run of this length
FlushNeeded(n) == n > 1

\* the "$(" found is parsed as a command: not escaped, or the escape is escaped
Live(e1, e2) == ~e1 \/ (e2 /\ expStart - 1 >= processed)

\* the escaped-escape branch keeping both backslashes in the fragment
AfterEscape_KeepsBoth(e1, e2) ==
  IF e1 /\ e2
  THEN [T |-> addFragment([fr |-> m_fragments, bc |-> m_bytecode],
                          Sub(buf, processed, expStart)),
        proc |-> expStart]
  ELSE [T |-> [fr |-> m_fragments, bc |-> m_bytecode], proc |-> processed]

\* the escaped-escape branch removing both backslashes from the fragment
AfterEscape_DropsBoth(e1, e2) ==
  IF e1 /\ e2
  THEN [T |-> addFragment([fr |-> m_fragments, bc |-> m_bytecode],
                          Sub(buf, processed, expStart - 2)),
        proc |-> expStart]
  ELSE [T |-> [fr |-> m_fragments, bc |-> m_bytecode], proc |-> processed]

\* fragments, bytecode and processed after the escaped-escape branch
AfterEscape(e1, e2) ==
  IF e1 /\ e2
  THEN [T |-> addFragment([fr |-> m_fragments, bc |-> m_bytecode],
                          Sub(buf, processed, expStart - 1)),
        proc |-> expStart]
  ELSE [T |-> [fr |-> m_fragments, bc |-> m_bytecode], proc |-> processed]

\* ... and after the literal flush: the pair [fr, bc]
AfterFlush(e1, e2) ==
  LET A == AfterEscape(e1, e2) IN
  IF FlushNeeded(expStart - A.proc)
  THEN addFragment(A.T, Sub(buf, A.proc, expStart))
  ELSE A.T

\* the branch of the if / else-if chain over the five patterns
Command ==
  LET r == expStart + 2 IN
  IF endExp(buf, r).ok THEN "end"
  ELSE IF varSubExp(buf, r).ok THEN "var"
  ELSE IF ifExp(buf, r).ok THEN "if"
  ELSE IF forExp(buf, r).ok THEN "for"
  ELSE IF includeExp(buf, r).ok THEN "include"
  ELSE "none"

\* no "$(" is left: the rest of the source is one fragment
CompileTail ==
  /\ InLoop
  /\ expStart = -1
  /\ LET T == addFragment([fr |-> m_fragments, bc |-> m_bytecode],
                          Sub(buf, processed, Len(buf)))
     IN m_fragments' = T.fr /\ m_bytecode' = T.bc
  /\ processed' = Len(buf)
  /\ UNCHANGED <<envVars, toks, buf, offsetStack, m_varNames, m_includeNames, phase>>
  /\ UNCHANGED renderVars

\* "$(" after a single backslash: the text before the backslash and a "$"
CompileEscape ==
  /\ InLoop
  /\ expStart # -1
  /\ \E e1 \in IsBackslashAt(expStart - 1), e2 \in IsBackslashAt(expStart - 2) :
       /\ e1 /\ ~e2
       /\ expStart - 1 >= processed
       /\ LET T == addFragment([fr |-> m_fragments, bc |-> m_bytecode],
                               Sub(buf, processed, expStart - 1))
          IN /\ m_fragments' = [T.fr EXCEPT ![Len(T.fr)] = Append(@, "$")]
             /\ m_bytecode' = T.bc
  /\ processed' = expStart + 1
  /\ UNCHANGED <<envVars, toks, buf, offsetStack, m_varNames, m_includeNames, phase>>
  /\ UNCHANGED renderVars

\* a backslash read before the start of the source: addFragment is given a
\* range whose end lies before its begin, which is undefined
CompileBadRange ==
  /\ InLoop
  /\ expStart # -1
  /\ \E e1 \in IsBackslashAt(expStart - 1) : e1 /\ expStart - 1 < processed
  /\ phase' \in {"crash", "corrupt"}
  /\ UNCHANGED <<envVars, toks, buf>>
  /\ UNCHANGED compileVars
  /\ UNCHANGED renderVars

\* $(end) closing the outermost open block instead of the innermost
CompileEnd_ClosesOutermost ==
  /\ InLoop
  /\ expStart # -1
  /\ Command = "end"
  /\ offsetStack # <<>>
  /\ \E e1 \in IsBackslashAt(expStart - 1), e2 \in IsBackslashAt(expStart - 2) :
       /\ Live(e1, e2)
       /\ LET T == AfterFlush(e1, e2)
              top == offsetStack[1]
              bc1 == IF OpBits(T.bc[top + 1]) = ListEndJump
                     THEN Append(T.bc, Word(BitOr(Jump, top)))
                     ELSE T.bc
              nextIndex == Len(bc1)
          IN /\ m_fragments' = T.fr
             /\ m_bytecode' = [bc1 EXCEPT ![top + 1] = Word(BitOr(@, nextIndex))]
  /\ offsetStack' = Tail(offsetStack)
  /\ processed' = expStart + 2 + endExp(buf, expStart + 2).len
  /\ UNCHANGED <<envVars, toks, buf, m_varNames, m_includeNames, phase>>
  /\ UNCHANGED renderVars

\* $(end) with an open block: the back Jump of a for, and the head's jump patched
CompileEnd ==
  /\ InLoop
  /\ expStart # -1
  /\ Command = "end"
  /\ offsetStack # <<>>
  /\ \E e1 \in IsBackslashAt(expStart - 1), e2 \in IsBackslashAt(expStart - 2) :
       /\ Live(e1, e2)
       /\ LET T == AfterFlush(e1, e2)
              top == offsetStack[Len(offsetStack)]
              bc1 == IF OpBits(T.bc[top + 1]) = ListEndJump
                     THEN Append(T.bc, Word(BitOr(Jump, top)))
                     ELSE T.bc
              nextIndex == Len(bc1)
          IN /\ m_fragments' = T.fr
             /\ m_bytecode' = [bc1 EXCEPT ![top + 1] = Word(BitOr(@, nextIndex))]
  /\ offsetStack' = SubSeq(offsetStack, 1, Len(offsetStack) - 1)
  /\ processed' = expStart + 2 + endExp(buf, expStart + 2).len
  /\ UNCHANGED <<envVars, toks, buf, m_varNames, m_includeNames, phase>>
  /\ UNCHANGED renderVars

\* $(end) with no open block: offsetStack.top() of an empty stack is undefined
CompileEndEmpty ==
  /\ InLoop
  /\ expStart # -1
  /\ Command = "end"
  /\ offsetStack = <<>>
  /\ \E e1 \in IsBackslashAt(expStart - 1), e2 \in IsBackslashAt(expStart - 2) :
       Live(e1, e2)
  /\ phase' \in {"crash", "corrupt"}
  /\ UNCHANGED <<envVars, toks, buf>>
  /\ UNCHANGED compileVars
  /\ UNCHANGED renderVars

\* $(name)
CompileVarSub ==
  /\ InLoop
  /\ expStart # -1
  /\ Command = "var"
  /\ \E e1 \in IsBackslashAt(expStart - 1), e2 \in IsBackslashAt(expStart - 2) :
       /\ Live(e1, e2)
       /\ LET T == AfterFlush(e1, e2)
              m == varSubExp(buf, expStart + 2)
              V == addVariable(m_varNames, m.g1)
          IN /\ m_fragments' = T.fr
             /\ m_varNames' = V.names
             /\ m_bytecode' = Append(T.bc, Word(BitOr(Substitute, V.idx)))
             /\ processed' = expStart + 2 + m.len
  /\ UNCHANGED <<envVars, toks, buf, offsetStack, m_includeNames, phase>>
  /\ UNCHANGED renderVars

\* $(if name): Immediate, and a FalseJump whose address the end will set
CompileIf ==
  /\ InLoop
  /\ expStart # -1
  /\ Command = "if"
  /\ \E e1 \in IsBackslashAt(expStart - 1), e2 \in IsBackslashAt(expStart - 2) :
       /\ Live(e1, e2)
       /\ LET T == AfterFlush(e1, e2)
              m == ifExp(buf, expStart + 2)
              V == addVariable(m_varNames, m.g1)
              bc1 == Append(T.bc, Word(BitOr(Immediate, V.idx)))
              bc2 == Append(bc1, FalseJump)
          IN /\ m_fragments' = T.fr
             /\ m_varNames' = V.names
             /\ m_bytecode' = bc2
             /\ offsetStack' = Append(offsetStack, Word(Len(bc2) - 1))
             /\ processed' = expStart + 2 + m.len
  /\ UNCHANGED <<envVars, toks, buf, m_includeNames, phase>>
  /\ UNCHANGED renderVars

\* $(for item in list): two Immediates, and a ListEndJump whose address the end will set
CompileFor ==
  /\ InLoop
  /\ expStart # -1
  /\ Command = "for"
  /\ \E e1 \in IsBackslashAt(expStart - 1), e2 \in IsBackslashAt(expStart - 2) :
       /\ Live(e1, e2)
       /\ LET T == AfterFlush(e1, e2)
              m == forExp(buf, expStart + 2)
              V1 == addVariable(m_varNames, m.g1)
              bc1 == Append(T.bc, Word(BitOr(Immediate, V1.idx)))
              V2 == addVariable(V1.names, m.g2)
              bc2 == Append(bc1, Word(BitOr(Immediate, V2.idx)))
              bc3 == Append(bc2, ListEndJump)
          IN /\ m_fragments' = T.fr
             /\ m_varNames' = V2.names
             /\ m_bytecode' = bc3
             /\ offsetStack' = Append(offsetStack, Word(Len(bc3) - 1))
             /\ processed' = expStart + 2 + m.len
  /\ UNCHANGED <<envVars, toks, buf, m_includeNames, phase>>
  /\ UNCHANGED renderVars

\* $(include target)
CompileInclude ==
  /\ InLoop
  /\ expStart # -1
  /\ Command = "include"
  /\ \E e1 \in IsBackslashAt(expStart - 1), e2 \in IsBackslashAt(expStart - 2) :
       /\ Live(e1, e2)
       /\ LET T == AfterFlush(e1, e2)
              m == includeExp(buf, expStart + 2)
          IN /\ m_fragments' = T.fr
             /\ m_bytecode' = Append(T.bc, Word(BitOr(Include, Len(m_includeNames))))
             /\ m_includeNames' = Append(m_includeNames, m.g1)
             /\ processed' = expStart + 2 + m.len
  /\ UNCHANGED <<envVars, toks, buf, offsetStack, m_varNames, phase>>
  /\ UNCHANGED renderVars

\* no pattern matches: throw FaeException("Invalid template")
CompileInvalid ==
  /\ InLoop
  /\ expStart # -1
  /\ Command = "none"
  /\ \E e1 \in IsBackslashAt(expStart - 1), e2 \in IsBackslashAt(expStart - 2) :
       /\ Live(e1, e2)
       /\ LET T == AfterFlush(e1, e2)
          IN m_fragments' = T.fr /\ m_bytecode' = T.bc
  /\ phase' = "invalid"
  /\ UNCHANGED <<envVars, toks, buf, processed, offsetStack, m_varNames, m_includeNames>>
  /\ UNCHANGED renderVars

\* the loop is left: the final Halt, and the constructor returns the Template
CompileHalt ==
  /\ phase = "compile"
  /\ processed >= Len(buf)
  /\ m_bytecode' = Append(m_bytecode, Halt)
  /\ phase' = "compiled"
  /\ UNCHANGED <<envVars, toks, buf, processed, offsetStack, m_fragments, m_varNames, m_includeNames>>
  /\ UNCHANGED renderVars

Compile ==
  \/ CompileTail
  \/ CompileEscape
  \/ CompileBadRange
  \/ CompileEnd
  \/ CompileEndEmpty
  \/ CompileVarSub
  \/ CompileIf
  \/ CompileFor
  \/ CompileInclude
  \/ CompileInvalid
  \/ CompileHalt

-----------------------------------------------------------------------------
(* Stream insertion of the values (operator<< with std::boolalpha set) *)

DigitChar(d) == <<"0", "1", "2", "3", "4", "5", "6", "7", "8", "9">>[d + 1]

RECURSIVE Digits(_)
\* the decimal digits of n >= 0
Digits(n) == IF n < 10 THEN <<DigitChar(n)>> ELSE Append(Digits(n \div 10), DigitChar(n % 10))

IntToStr(n) == IF n < 0 THEN <<"-">> \o Digits(0 - n) ELSE Digits(n)

\* a bool inserted without std::boolalpha
BoolToStr_Numeric(n) == <<DigitChar(n)>>

BoolToStr(n) == IF n = 1 THEN <<"t", "r", "u", "e">> ELSE <<"f", "a", "l", "s", "e">>

\* detail::IsStreamInsertable of the alternative v holds
IsStreamInsertable(v) == v.k \in {"int", "bool", "str"}

\* detail::IsContainer of the alternative v holds
IsContainer(v) == v.k \in {"list", "lists"}

\* rOutStream << v
Insert(v) ==
  CASE v.k = "int" -> IntToStr(v.n)
    [] v.k = "bool" -> BoolToStr(v.n)
    [] v.k = "str" -> v.s
    [] OTHER -> <<>>

\* rOutStream << *cursor, under IsStreamInsertable<ValType>: an int element is
\* inserted, an element that is a vector is not
InsertElem(rContainer, pos) ==
  IF rContainer.k = "list" THEN Insert(IntV(At(rContainer.l, pos))) ELSE <<>>

-----------------------------------------------------------------------------
(* The callbacks of Template::libraryRender *)

NoIterators == [i \in {} |-> 0]

\* printVar looking in the bindings before the iterator map
printVar_BindingFirst(key) ==
  LET name == At(m_varNames, key) IN
  IF name \in DOMAIN input
  THEN (IF IsStreamInsertable(input[name]) THEN Insert(input[name]) ELSE <<>>)
  ELSE IF key \in DOMAIN currentIterators
  THEN LET it == currentIterators[key]
           rContainer == input[it.cont]
       IN IF IsContainer(rContainer)
          THEN InsertElem(rContainer, it.pos)
          ELSE <<>>
  ELSE <<>>

\* printVar(key, rOutStream): the text inserted into the stream
printVar(key) ==
  IF key \in DOMAIN currentIterators
  THEN LET it == currentIterators[key]
           rContainer == input[it.cont]
       IN IF IsContainer(rContainer)
          THEN InsertElem(rContainer, it.pos)
          ELSE <<>>
  ELSE LET name == At(m_varNames, key) IN
       IF name \in DOMAIN input /\ IsStreamInsertable(input[name])
       THEN Insert(input[name])
       ELSE <<>>

\* varExists testing the value of the binding instead of its presence
varExists_Truthy(key) ==
  LET name == At(m_varNames, key) IN
  \/ name \in DOMAIN input /\ (input[name].n # 0 \/ input[name].s # <<>> \/ input[name].l # <<>>)
  \/ key \in DOMAIN currentIterators

\* varExists(key)
varExists(key) ==
  At(m_varNames, key) \in DOMAIN input \/ key \in DOMAIN currentIterators

\* advanceContainer ending the loop one element early
advanceContainer_EndsEarly(singleIdx, listIdx) ==
  LET name == At(m_varNames, listIdx)
      same == [ret |-> "false", iters |-> currentIterators]
  IN
  IF name \notin DOMAIN input THEN same
  ELSE IF ~IsContainer(input[name]) THEN same
  ELSE IF Len(input[name].l) = 0 THEN same
  ELSE IF singleIdx \notin DOMAIN currentIterators
  THEN [ret |-> "true",
        iters |-> [k \in DOMAIN currentIterators \cup {singleIdx} |->
                     IF k = singleIdx THEN [cont |-> name, pos |-> 0]
                     ELSE currentIterators[k]]]
  ELSE LET it == currentIterators[singleIdx] IN
       IF it.pos + 1 >= Len(input[name].l) - 1
       THEN [ret |-> "false",
             iters |-> [k \in DOMAIN currentIterators \ {singleIdx} |-> currentIterators[k]]]
       ELSE [ret |-> "true",
             iters |-> [currentIterators EXCEPT ![singleIdx].pos = @ + 1]]

\* advanceContainer looking for the container among the active loop items when
\* no binding has its name
advanceContainer_ResolvesItems(singleIdx, listIdx) ==
  LET name == At(m_varNames, listIdx)
      same == [ret |-> "false", iters |-> currentIterators]
      items == {k \in DOMAIN currentIterators : At(m_varNames, k) = name}
  IN
  IF name \notin DOMAIN input
  THEN IF items = {} \/ singleIdx \in DOMAIN currentIterators
       THEN [ret |-> "false",
             iters |-> [k \in DOMAIN currentIterators \ {singleIdx} |-> currentIterators[k]]]
       ELSE [ret |-> "true",
             iters |-> [k \in DOMAIN currentIterators \cup {singleIdx} |->
                          IF k = singleIdx
                          THEN [cont |-> currentIterators[CHOOSE i \in items : TRUE].cont,
                                pos |-> 0]
                          ELSE currentIterators[k]]]
  ELSE IF ~IsContainer(input[name]) THEN same
  ELSE IF Len(input[name].l) = 0 THEN same
  ELSE IF singleIdx \notin DOMAIN currentIterators
  THEN [ret |-> "true",
        iters |-> [k \in DOMAIN currentIterators \cup {singleIdx} |->
                     IF k = singleIdx THEN [cont |-> name, pos |-> 0]
                     ELSE currentIterators[k]]]
  ELSE LET it == currentIterators[singleIdx] IN
       IF it.cont # name THEN [ret |-> "undefined", iters |-> currentIterators]
       ELSE IF it.pos + 1 = Len(input[name].l)
       THEN [ret |-> "false",
             iters |-> [k \in DOMAIN currentIterators \ {singleIdx} |-> currentIterators[k]]]
       ELSE [ret |-> "true",
             iters |-> [currentIterators EXCEPT ![singleIdx].pos = @ + 1]]

\* advanceContainer leaving the entry in the map when the cursor is at the end
advanceContainer_KeepsEntry(singleIdx, listIdx) ==
  LET name == At(m_varNames, listIdx)
      same == [ret |-> "false", iters |-> currentIterators]
  IN
  IF name \notin DOMAIN input THEN same
  ELSE IF ~IsContainer(input[name]) THEN same
  ELSE IF Len(input[name].l) = 0 THEN same
  ELSE IF singleIdx \notin DOMAIN currentIterators
  THEN [ret |-> "true",
        iters |-> [k \in DOMAIN currentIterators \cup {singleIdx} |->
                     IF k = singleIdx THEN [cont |-> name, pos |-> 0]
                     ELSE currentIterators[k]]]
  ELSE LET it == currentIterators[singleIdx] IN
       IF it.cont # name THEN [ret |-> "undefined", iters |-> currentIterators]
       ELSE IF it.pos + 1 = Len(input[name].l)
       THEN [ret |-> "false", iters |-> [currentIterators EXCEPT ![singleIdx].pos = 0]]
       ELSE [ret |-> "true",
             iters |-> [currentIterators EXCEPT ![singleIdx].pos = @ + 1]]

\* advanceContainer(singleIdx, listIdx): what it returns (ret) and the iterator
\* map it leaves (iters); ret is "undefined" where the stored cursor is compared
\* with the end of a container it does not belong to
advanceContainer(singleIdx, listIdx) ==
  LET name == At(m_varNames, listIdx)
      same == [ret |-> "false", iters |-> currentIterators]
  IN
  IF name \notin DOMAIN input THEN same
  ELSE IF ~IsContainer(input[name]) THEN same
  ELSE IF Len(input[name].l) = 0 THEN same
  ELSE IF singleIdx \notin DOMAIN currentIterators
  THEN [ret |-> "true",
        iters |-> [k \in DOMAIN currentIterators \cup {singleIdx} |->
                     IF k = singleIdx THEN [cont |-> name, pos |-> 0]
                     ELSE currentIterators[k]]]
  ELSE LET it == currentIterators[singleIdx] IN
       IF it.cont # name THEN [ret |-> "undefined", iters |-> currentIterators]
       ELSE IF it.pos + 1 = Len(input[name].l)
       THEN [ret |-> "false",
             iters |-> [k \in DOMAIN currentIterators \ {singleIdx} |-> currentIterators[k]]]
       ELSE [ret |-> "true",
             iters |-> [currentIterators EXCEPT ![singleIdx].pos = @ + 1]]

-----------------------------------------------------------------------------
(* Template::render(input): libraryRender with no library, and the VM loop *)

\* a render whose iterator map is the one the last render left
StartRender_KeepsIterators ==
  /\ phase \in {"compiled", "done"}
  /\ input' \in Inputs
  /\ pc' = 0
  /\ stream' = <<>>
  /\ currentIterators' = currentIterators
  /\ phase' = "render"
  /\ UNCHANGED <<envVars, toks, buf>>
  /\ UNCHANGED compileVars

\* render(input) for an input of I: the locals of libraryRender and of render
StartRenderWith(I) ==
  /\ phase \in {"compiled", "done"}
  /\ input' \in I
  /\ pc' = 0
  /\ stream' = <<>>
  /\ currentIterators' = NoIterators
  /\ phase' = "render"
  /\ UNCHANGED <<envVars, toks, buf>>
  /\ UNCHANGED compileVars

StartRender == StartRenderWith(Inputs)

\* a render that loops for ever is followed while its output is short
Fetching == phase = "render" /\ pc < Len(m_bytecode) /\ Len(stream) <= MaxOut

op == At(m_bytecode, pc)

\* pc = target - 1 in the switch and pc++ at the end of the pass; for target 0
\* the size_t wraps to its maximum and the increment wraps it back to 0
JumpTo(target) == target

\* Halt; the loop condition failing; and the default branch for a word whose
\* opcode bits are 0 but which is not Halt
VmStop ==
  /\ phase = "render"
  /\ pc >= Len(m_bytecode) \/ OpBits(op) = OpBits(Halt)
  /\ phase' = IF pc >= Len(m_bytecode) \/ op = Halt THEN "done" ELSE "thrown"
  /\ UNCHANGED <<envVars, toks, buf>>
  /\ UNCHANGED compileVars
  /\ UNCHANGED renderVars

VmCopy ==
  /\ Fetching
  /\ OpBits(op) = Copy
  /\ stream' = stream \o At(m_fragments, Operand(op))
  /\ pc' = pc + 1
  /\ UNCHANGED <<envVars, toks, buf, phase, input, currentIterators>>
  /\ UNCHANGED compileVars

VmSubstitute ==
  /\ Fetching
  /\ OpBits(op) = Substitute
  /\ stream' = stream \o printVar(Operand(op))
  /\ pc' = pc + 1
  /\ UNCHANGED <<envVars, toks, buf, phase, input, currentIterators>>
  /\ UNCHANGED compileVars

VmImmediate ==
  /\ Fetching
  /\ OpBits(op) = Immediate
  /\ pc' = pc + 1
  /\ UNCHANGED <<envVars, toks, buf, phase, input, stream, currentIterators>>
  /\ UNCHANGED compileVars

VmFalseJump ==
  /\ Fetching
  /\ OpBits(op) = FalseJump
  /\ LET varIdx == Operand(At(m_bytecode, pc - 1)) IN
     pc' = IF ~varExists(varIdx) THEN JumpTo(Operand(op)) ELSE pc + 1
  /\ UNCHANGED <<envVars, toks, buf, phase, input, stream, currentIterators>>
  /\ UNCHANGED compileVars

VmListEndJump ==
  /\ Fetching
  /\ OpBits(op) = ListEndJump
  /\ LET singleIdx == Operand(At(m_bytecode, pc - 2))
         listIdx == Operand(At(m_bytecode, pc - 1))
         R == advanceContainer(singleIdx, listIdx)
     IN /\ currentIterators' = R.iters
        /\ pc' = IF R.ret = "false" THEN JumpTo(Operand(op)) ELSE pc + 1
        /\ IF R.ret = "undefined" THEN phase' \in {"crash", "corrupt"} ELSE phase' = phase
  /\ UNCHANGED <<envVars, toks, buf, input, stream>>
  /\ UNCHANGED compileVars

VmJump ==
  /\ Fetching
  /\ OpBits(op) = Jump
  /\ pc' = JumpTo(Operand(op))
  /\ UNCHANGED <<envVars, toks, buf, phase, input, stream, currentIterators>>
  /\ UNCHANGED compileVars

\* renderInclude with pLibrary == nullptr writes nothing
VmInclude ==
  /\ Fetching
  /\ OpBits(op) = Include
  /\ pc' = pc + 1
  /\ UNCHANGED <<envVars, toks, buf, phase, input, stream, currentIterators>>
  /\ UNCHANGED compileVars

Render ==
  \/ StartRender
  \/ VmStop
  \/ VmCopy
  \/ VmSubstitute
  \/ VmImmediate
  \/ VmFalseJump
  \/ VmListEndJump
  \/ VmJump
  \/ VmInclude

Next == Compile \/ Render

Spec == Init /\ [][Next]_vars

-----------------------------------------------------------------------------
(* Library::Library(directory, recursive, ignoreBadTemplates), reload,      *)
(* addTemplate and Library::render.  The Template whose compile or render   *)
(* is running is the one in m_fragments .. m_bytecode; the Templates of     *)
(* the map are records of the four members.                                 *)

MaxDepth == 2      \* at most this many renders are suspended in renderInclude

\* the bindings given to Library::render
LibInputs ==
  {MakeInput(xv, xsv) : xv \in {Unbound, StrV(<<"h", "i">>)},
                        xsv \in {Unbound, ListV(Elems(MaxElems))}}

\* the Template object in the four members
Program ==
  [fr |-> m_fragments, vn |-> m_varNames, inc |-> m_includeNames, bc |-> m_bytecode]

\* the four members become those of the Template P
Loaded(P) ==
  /\ m_fragments' = P.fr
  /\ m_varNames' = P.vn
  /\ m_includeNames' = P.inc
  /\ m_bytecode' = P.bc

\* no Template is compiling or rendering
Unloaded ==
  /\ toks' = <<>>
  /\ buf' = <<>>
  /\ processed' = 0
  /\ offsetStack' = <<>>
  /\ Loaded([fr |-> <<>>, vn |-> <<>>, inc |-> <<>>, bc |-> <<>>])

\* no render is running, and the string of the last one is dropped
NoRender ==
  /\ input' = NoInput
  /\ pc' = 0
  /\ stream' = <<>>
  /\ currentIterators' = NoIterators
  /\ templateName' = <<>>
  /\ callStack' = <<>>

\* what the directory iterator of reload yields: the files of the top level and
\* the subdirectory, and with m_recursive the files below it
Entries ==
  {p \in Paths : disk[p] # Absent /\ (m_recursive \/ p # PathNT)}
    \cup (IF disk[PathNT] # Absent THEN {PathN} ELSE {})

IsRegularFile(e) == e \in Paths

\* file.lexically_relative(m_directory), as the key of the map
RelativeName(e) == e

LibInit ==
  /\ disk \in Disks
  /\ m_recursive \in BOOLEAN
  /\ m_ignoreBadTemplates \in BOOLEAN
  /\ m_templates = NoTemplates
  /\ scan = Entries
  /\ file = <<>>
  /\ api = "Library"
  /\ discard = FALSE
  /\ templateName = <<>>
  /\ callStack = <<>>
  /\ OneCaller
  /\ toks = <<>>
  /\ buf = <<>>
  /\ processed = 0
  /\ offsetStack = <<>>
  /\ m_fragments = <<>>
  /\ m_varNames = <<>>
  /\ m_includeNames = <<>>
  /\ m_bytecode = <<>>
  /\ phase = "scan"
  /\ input = NoInput
  /\ pc = 0
  /\ stream = <<>>
  /\ currentIterators = NoIterators

\* the Library exists and no call of it is running
Idle ==
  \/ phase \in {"ready", "edited", "done", "notfound", "thrown"}
  \/ phase = "libthrown" /\ api = "reload"

\* the files change between two calls: one file is written, rewritten or removed
Edit ==
  /\ Idle
  /\ \E p \in Paths :
       \E c \in Contents(p) \cup {Absent} :
         /\ c # disk[p]
         /\ disk' = [disk EXCEPT ![p] = c]
  /\ phase' = "edited"
  /\ api' = "none"
  /\ discard' = FALSE
  /\ Unloaded
  /\ NoRender
  /\ UNCHANGED <<callerVars, m_recursive, m_ignoreBadTemplates, m_templates, scan, file>>

\* reload keeping the map when discard is set
Reload_KeepsOnDiscard ==
  /\ Idle
  /\ discard' \in BOOLEAN
  /\ m_templates' = m_templates
  /\ scan' = Entries
  /\ api' = "reload"
  /\ phase' = "scan"
  /\ Unloaded
  /\ NoRender
  /\ UNCHANGED <<callerVars, disk, m_recursive, m_ignoreBadTemplates, file>>

\* reload(discard) up to the first addTemplate
Reload ==
  /\ Idle
  /\ discard' \in BOOLEAN
  /\ m_templates' = IF discard' THEN NoTemplates ELSE m_templates
  /\ scan' = Entries
  /\ api' = "reload"
  /\ phase' = "scan"
  /\ Unloaded
  /\ NoRender
  /\ UNCHANGED <<callerVars, disk, m_recursive, m_ignoreBadTemplates, file>>

\* addTemplate of an entry that is no regular file
AddTemplateSkip ==
  /\ phase = "scan"
  /\ \E e \in scan : ~IsRegularFile(e) /\ scan' = scan \ {e}
  /\ UNCHANGED <<callerVars, disk, m_recursive, m_ignoreBadTemplates, m_templates, file, api,
                 discard, templateName, callStack>>
  /\ UNCHANGED <<toks, buf, phase>>
  /\ UNCHANGED compileVars
  /\ UNCHANGED renderVars

\* addTemplate of a regular file: the file is read and Template(buf) starts
AddTemplateRead ==
  /\ phase = "scan"
  /\ \E e \in scan :
       /\ IsRegularFile(e)
       /\ scan' = scan \ {e}
       /\ file' = e
       /\ toks' = disk[e]
       /\ buf' = Flatten(disk[e])
  /\ processed' = 0
  /\ offsetStack' = <<>>
  /\ Loaded([fr |-> <<>>, vn |-> <<>>, inc |-> <<>>, bc |-> <<>>])
  /\ phase' = "compile"
  /\ UNCHANGED <<callerVars, disk, m_recursive, m_ignoreBadTemplates, m_templates, api,
                 discard, templateName, callStack>>
  /\ UNCHANGED renderVars

\* Template(buf) has returned: m_templates[name] = Template(buf)
AddTemplateStore ==
  /\ phase = "compiled"
  /\ api \in {"Library", "reload"}
  /\ m_templates' = [n \in DOMAIN m_templates \cup {RelativeName(file)} |->
                       IF n = RelativeName(file) THEN Program ELSE m_templates[n]]
  /\ phase' = "scan"
  /\ file' = <<>>
  /\ Unloaded
  /\ UNCHANGED <<callerVars, disk, m_recursive, m_ignoreBadTemplates, scan, api, discard,
                 templateName, callStack>>
  /\ UNCHANGED renderVars

\* the map entry created before Template(buf) threw is left in the map
AddTemplateIgnore_LeavesEntry ==
  /\ phase = "invalid"
  /\ api \in {"Library", "reload"}
  /\ m_ignoreBadTemplates
  /\ m_templates' = [n \in DOMAIN m_templates \cup {RelativeName(file)} |->
                       IF n = RelativeName(file)
                       THEN [fr |-> <<>>, vn |-> <<>>, inc |-> <<>>, bc |-> <<Halt>>]
                       ELSE m_templates[n]]
  /\ phase' = "scan"
  /\ file' = <<>>
  /\ Unloaded
  /\ UNCHANGED <<callerVars, disk, m_recursive, m_ignoreBadTemplates, scan, api, discard,
                 templateName, callStack>>
  /\ UNCHANGED renderVars

\* Template(buf) has thrown and m_ignoreBadTemplates is set: the catch
AddTemplateIgnore ==
  /\ phase = "invalid"
  /\ api \in {"Library", "reload"}
  /\ m_ignoreBadTemplates
  /\ phase' = "scan"
  /\ file' = <<>>
  /\ Unloaded
  /\ UNCHANGED <<callerVars, disk, m_recursive, m_ignoreBadTemplates, m_templates, scan, api,
                 discard, templateName, callStack>>
  /\ UNCHANGED renderVars

\* the exception leaves reload with the map emptied once more
AddTemplateThrow_DropsCompiled ==
  /\ phase = "invalid"
  /\ api \in {"Library", "reload"}
  /\ ~m_ignoreBadTemplates
  /\ phase' = "libthrown"
  /\ m_templates' = NoTemplates
  /\ Unloaded
  /\ UNCHANGED <<callerVars, disk, m_recursive, m_ignoreBadTemplates, scan, file,
                 api, discard, templateName, callStack>>
  /\ UNCHANGED renderVars

\* Template(buf) has thrown and m_ignoreBadTemplates is not set: the exception
\* leaves addTemplate, reload and, when it called reload, the constructor
AddTemplateThrow ==
  /\ phase = "invalid"
  /\ api \in {"Library", "reload"}
  /\ ~m_ignoreBadTemplates
  /\ phase' = "libthrown"
  /\ Unloaded
  /\ UNCHANGED <<callerVars, disk, m_recursive, m_ignoreBadTemplates, m_templates, scan, file,
                 api, discard, templateName, callStack>>
  /\ UNCHANGED renderVars

\* the directory iterator is at its end: reload returns
ReloadReturn ==
  /\ phase = "scan"
  /\ scan = {}
  /\ phase' = "ready"
  /\ UNCHANGED <<envVars, toks, buf>>
  /\ UNCHANGED compileVars
  /\ UNCHANGED renderVars

\* Library::render returning an empty string for a name that is not in the map
LibraryRender_EmptyOnMissing ==
  /\ Idle
  /\ \E name \in Paths, in \in LibInputs :
       /\ templateName' = name
       /\ input' = in
       /\ IF name \in DOMAIN m_templates
          THEN Loaded(m_templates[name]) /\ phase' = "render"
          ELSE Loaded([fr |-> <<>>, vn |-> <<>>, inc |-> <<>>, bc |-> <<>>]) /\ phase' = "done"
  /\ pc' = 0
  /\ stream' = <<>>
  /\ currentIterators' = NoIterators
  /\ callStack' = <<>>
  /\ api' = "render"
  /\ discard' = FALSE
  /\ UNCHANGED <<callerVars, disk, m_recursive, m_ignoreBadTemplates, m_templates, scan, file>>
  /\ UNCHANGED <<toks, buf, processed, offsetStack>>

\* Library::render(templateName, input): the Template found starts its
\* libraryRender(input, this); a name that is not found throws FaeException
LibraryRender ==
  /\ Idle
  /\ \E name \in Paths, in \in LibInputs :
       /\ templateName' = name
       /\ input' = in
       /\ IF name \in DOMAIN m_templates
          THEN Loaded(m_templates[name]) /\ phase' = "render"
          ELSE Loaded([fr |-> <<>>, vn |-> <<>>, inc |-> <<>>, bc |-> <<>>]) /\ phase' = "notfound"
  /\ pc' = 0
  /\ stream' = <<>>
  /\ currentIterators' = NoIterators
  /\ callStack' = <<>>
  /\ api' = "render"
  /\ discard' = FALSE
  /\ UNCHANGED <<callerVars, disk, m_recursive, m_ignoreBadTemplates, m_templates, scan, file>>
  /\ UNCHANGED <<toks, buf, processed, offsetStack>>

\* the render suspended while the included Template renders
Frame ==
  [fr |-> m_fragments, vn |-> m_varNames, inc |-> m_includeNames, bc |-> m_bytecode,
   pc |-> pc, stream |-> stream, iters |-> currentIterators]

\* renderInclude passing the exception of Library::render on to its caller
LibInclude_Propagates ==
  /\ Fetching
  /\ api = "render"
  /\ OpBits(op) = Include
  /\ LET target == At(m_includeNames, Operand(op)) IN
     IF target \in DOMAIN m_templates
     THEN /\ Len(callStack) < MaxDepth
          /\ callStack' = Append(callStack, Frame)
          /\ Loaded(m_templates[target])
          /\ pc' = 0
          /\ stream' = <<>>
          /\ currentIterators' = NoIterators
          /\ phase' = phase
     ELSE /\ phase' = "notfound"
          /\ UNCHANGED <<pc, stream, currentIterators, callStack>>
          /\ UNCHANGED <<m_fragments, m_varNames, m_includeNames, m_bytecode>>
  /\ UNCHANGED <<callerVars, disk, m_recursive, m_ignoreBadTemplates, m_templates, scan, file,
                 api, discard, templateName>>
  /\ UNCHANGED <<toks, buf, processed, offsetStack, input>>

\* the included Template rendered with the iterator map of the including render
LibInclude_SharesIterators ==
  /\ Fetching
  /\ api = "render"
  /\ OpBits(op) = Include
  /\ LET target == At(m_includeNames, Operand(op)) IN
     IF target \in DOMAIN m_templates
     THEN /\ Len(callStack) < MaxDepth
          /\ callStack' = Append(callStack, Frame)
          /\ Loaded(m_templates[target])
          /\ pc' = 0
          /\ stream' = <<>>
          /\ currentIterators' = currentIterators
     ELSE /\ pc' = pc + 1
          /\ UNCHANGED <<stream, currentIterators, callStack>>
          /\ UNCHANGED <<m_fragments, m_varNames, m_includeNames, m_bytecode>>
  /\ UNCHANGED <<callerVars, disk, m_recursive, m_ignoreBadTemplates, m_templates, scan, file,
                 api, discard, templateName>>
  /\ UNCHANGED <<toks, buf, processed, offsetStack, phase, input>>

\* renderInclude with a Library: pLibrary->render(m_includeNames[id], input)
\* starts the Template found with locals of its own; a target that is not found
\* throws, the catch ignores it and the instruction is done
LibInclude ==
  /\ Fetching
  /\ api = "render"
  /\ OpBits(op) = Include
  /\ LET target == At(m_includeNames, Operand(op)) IN
     IF target \in DOMAIN m_templates
     THEN /\ Len(callStack) < MaxDepth
          /\ callStack' = Append(callStack, Frame)
          /\ Loaded(m_templates[target])
          /\ pc' = 0
          /\ stream' = <<>>
          /\ currentIterators' = NoIterators
     ELSE /\ pc' = pc + 1
          /\ UNCHANGED <<stream, currentIterators, callStack>>
          /\ UNCHANGED <<m_fragments, m_varNames, m_includeNames, m_bytecode>>
  /\ UNCHANGED <<callerVars, disk, m_recursive, m_ignoreBadTemplates, m_templates, scan, file,
                 api, discard, templateName>>
  /\ UNCHANGED <<toks, buf, processed, offsetStack, phase, input>>

\* the string of the included Template is not inserted
LibReturn_Discards ==
  /\ phase = "render"
  /\ api = "render"
  /\ callStack # <<>>
  /\ pc >= Len(m_bytecode) \/ OpBits(op) = OpBits(Halt)
  /\ LET top == callStack[Len(callStack)]
     IN /\ Loaded(top)
        /\ pc' = top.pc + 1
        /\ stream' = top.stream
        /\ currentIterators' = top.iters
  /\ callStack' = SubSeq(callStack, 1, Len(callStack) - 1)
  /\ UNCHANGED <<callerVars, disk, m_recursive, m_ignoreBadTemplates, m_templates, scan, file,
                 api, discard, templateName>>
  /\ UNCHANGED <<toks, buf, processed, offsetStack, phase, input>>

\* the render of an included Template ends: its string is inserted into the
\* stream of the including render (nothing when it threw), which goes on
LibReturn ==
  /\ phase = "render"
  /\ api = "render"
  /\ callStack # <<>>
  /\ pc >= Len(m_bytecode) \/ OpBits(op) = OpBits(Halt)
  /\ LET top == callStack[Len(callStack)]
         str == IF pc >= Len(m_bytecode) \/ op = Halt THEN stream ELSE <<>>
     IN /\ Loaded(top)
        /\ pc' = top.pc + 1
        /\ stream' = top.stream \o str
        /\ currentIterators' = top.iters
  /\ callStack' = SubSeq(callStack, 1, Len(callStack) - 1)
  /\ UNCHANGED <<callerVars, disk, m_recursive, m_ignoreBadTemplates, m_templates, scan, file,
                 api, discard, templateName>>
  /\ UNCHANGED <<toks, buf, processed, offsetStack, phase, input>>

\* the render Library::render started ends: its string goes to the caller
LibStop ==
  /\ phase = "render"
  /\ api = "render"
  /\ callStack = <<>>
  /\ pc >= Len(m_bytecode) \/ OpBits(op) = OpBits(Halt)
  /\ phase' = IF pc >= Len(m_bytecode) \/ op = Halt THEN "done" ELSE "thrown"
  /\ UNCHANGED <<envVars, toks, buf>>
  /\ UNCHANGED compileVars
  /\ UNCHANGED renderVars

LibNext ==
  \/ Edit
  \/ Reload
  \/ AddTemplateSkip
  \/ AddTemplateRead
  \/ Compile
  \/ AddTemplateStore
  \/ AddTemplateIgnore
  \/ AddTemplateThrow
  \/ ReloadReturn
  \/ LibraryRender
  \/ VmCopy
  \/ VmSubstitute
  \/ VmImmediate
  \/ VmFalseJump
  \/ VmListEndJump
  \/ VmJump
  \/ LibInclude
  \/ LibReturn
  \/ LibStop

LibSpec == LibInit /\ [][LibNext]_vars

-----------------------------------------------------------------------------
(* A Library of templates that include each other, built once by the        *)
(* constructor and then rendered: an include inside a loop, templates with  *)
(* loops and conditions of their own, a template that includes itself, two  *)
(* templates that include each other.                                        *)

IncContents(p) ==
  CASE p = PathT -> {<<"a", "a", "sub">>, <<"a", "a", "if", "a", "a", "end">>,
                     <<"for", "if", "sub", "end", "end">>, <<"a", "a", "inc">>,
                     <<"a", "a", "incu">>, <<"a", "a", "for", "for", "end", "end">>}
    [] p = PathU -> {<<"a", "a", "inc", "a", "a", "incn">>,
                     <<"a", "a", "for", "inc", "sub", "end">>}
    [] p = PathNT -> {<<"a", "a">>}

IncDisks ==
  {d \in [Paths -> UNION {IncContents(p) : p \in Paths} \cup {Absent}] :
     \A p \in Paths : d[p] \in IncContents(p) \cup {Absent}}

\* Library(directory, recursive) with ignoreBadTemplates at its default
IncInit ==
  /\ disk \in IncDisks
  /\ m_recursive \in BOOLEAN
  /\ m_ignoreBadTemplates = TRUE
  /\ m_templates = NoTemplates
  /\ scan = Entries
  /\ file = <<>>
  /\ api = "Library"
  /\ discard = FALSE
  /\ templateName = <<>>
  /\ callStack = <<>>
  /\ OneCaller
  /\ toks = <<>>
  /\ buf = <<>>
  /\ processed = 0
  /\ offsetStack = <<>>
  /\ m_fragments = <<>>
  /\ m_varNames = <<>>
  /\ m_includeNames = <<>>
  /\ m_bytecode = <<>>
  /\ phase = "scan"
  /\ input = NoInput
  /\ pc = 0
  /\ stream = <<>>
  /\ currentIterators = NoIterators

\* the steps of the VM loop and of renderInclude
IncRun ==
  \/ VmCopy
  \/ VmSubstitute
  \/ VmImmediate
  \/ VmFalseJump
  \/ VmListEndJump
  \/ VmJump
  \/ LibInclude
  \/ LibReturn
  \/ LibStop

\* the constructor's addTemplate calls (every file compiles, unless the read
\* before the start of a source that begins with "$(" goes wrong), then renders
IncNext ==
  \/ AddTemplateSkip
  \/ AddTemplateRead
  \/ CompileTail
  \/ CompileBadRange
  \/ CompileEnd
  \/ CompileVarSub
  \/ CompileIf
  \/ CompileFor
  \/ CompileInclude
  \/ CompileHalt
  \/ AddTemplateStore
  \/ ReloadReturn
  \/ LibraryRender
  \/ IncRun

IncSpec == IncInit /\ [][IncNext]_vars

\* a render that is called runs on: the loop of render takes its next step
IncFairSpec == IncSpec /\ WF_vars(IncRun)

-----------------------------------------------------------------------------
(* One Template rendered again and again, and two renders of one Template   *)
(* whose steps interleave.  The caller keeps the string of one render that   *)
(* ran alone; a second render has locals of its own, and the scheduler       *)
(* decides whose step is next.                                               *)

\* sources that between them take every branch of compile and of the VM
RepeatSrc ==
  {<<"a", "a">>, <<"a", "a", "sub">>, <<"sub">>, <<"a", "bs", "sub">>,
   <<"if", "a", "a", "end", "sub">>, <<"for", "sub", "end", "sub">>,
   <<"for", "if", "sub", "end", "end">>, <<"for", "sub">>, <<"a", "for", "sub">>,
   <<"a", "a", "if", "sub">>, <<"end">>, <<"open">>, <<"a", "a", "inc", "sub">>}

RepeatInit ==
  /\ NoLibrary
  /\ OneCaller
  /\ toks \in RepeatSrc
  /\ buf = Flatten(toks)
  /\ processed = 0
  /\ offsetStack = <<>>
  /\ m_fragments = <<>>
  /\ m_varNames = <<>>
  /\ m_includeNames = <<>>
  /\ m_bytecode = <<>>
  /\ phase = "compile"
  /\ input = NoInput
  /\ pc = 0
  /\ stream = <<>>
  /\ currentIterators = <<>>

\* the caller takes the string render returned, with the bindings it gave; the
\* render ran with no other render of the Template under way
Keep ==
  /\ phase = "done"
  /\ api = "none"
  /\ other = NotCalled
  /\ ~returned.any
  /\ returned' = [input |-> input, out |-> stream, any |-> TRUE]
  /\ phase' = "compiled"
  /\ UNCHANGED <<libVars, other, toks, buf>>
  /\ UNCHANGED compileVars
  /\ UNCHANGED renderVars

RepeatNext == Compile \/ Render \/ Keep

RepeatSpec == RepeatInit /\ [][RepeatNext]_vars

\* the two renders writing to one output stream
Switch_SharesStream ==
  /\ phase \in {"compiled", "render", "done"}
  /\ api = "none"
  /\ other' = [phase |-> phase, input |-> input, pc |-> pc, stream |-> stream,
               currentIterators |-> currentIterators]
  /\ phase' = other.phase
  /\ input' = other.input
  /\ pc' = other.pc
  /\ stream' = stream
  /\ currentIterators' = other.currentIterators
  /\ UNCHANGED <<libVars, returned, toks, buf>>
  /\ UNCHANGED compileVars

\* the other render of the Template gets the next step: the locals of the two
\* calls (input, pc, stream, currentIterators) change places
Switch ==
  /\ phase \in {"compiled", "render", "done"}
  /\ api = "none"
  /\ other' = [phase |-> phase, input |-> input, pc |-> pc, stream |-> stream,
               currentIterators |-> currentIterators]
  /\ phase' = other.phase
  /\ input' = other.input
  /\ pc' = other.pc
  /\ stream' = other.stream
  /\ currentIterators' = other.currentIterators
  /\ UNCHANGED <<libVars, returned, toks, buf>>
  /\ UNCHANGED compileVars

\* render(input) of either caller
ConcStart == StartRenderWith(LibInputs)

ConcNext ==
  \/ Compile
  \/ ConcStart
  \/ VmStop
  \/ VmCopy
  \/ VmSubstitute
  \/ VmImmediate
  \/ VmFalseJump
  \/ VmListEndJump
  \/ VmJump
  \/ VmInclude
  \/ Keep
  \/ Switch

ConcSpec == RepeatInit /\ [][ConcNext]_vars

-----------------------------------------------------------------------------
(* Templates with a block inside a block, rendered with bindings for the    *)
(* names x, y, xs and ys; the loop items a and b have no binding.            *)

NameY == <<"y">>
NameYs == <<"y", "s">>
NameA == <<"a">>
NameB == <<"b">>

Heads == {"if", "ify", "forax", "forby"}

\* text, a block, text and a block inside it, text
NestedBlockSrc ==
  {<<"a", "a", h1>> \o b1 \o <<h2, "B", "B", "end">> \o b3 \o <<"end", "a", "a">> :
     h1 \in Heads, h2 \in Heads, b1 \in {<<>>, <<"C", "C">>}, b3 \in {<<>>, <<"D", "D">>}}

NameRows == <<"r", "o", "w", "s">>
NameR == <<"r">>
NameC == <<"c">>

\* a loop over the item of the loop around it
RowsSrc ==
  {pre \o <<"forrows", "forcr">> \o body \o <<"end", "end">> :
     pre \in {<<>>, <<"a", "a">>}, body \in {<<"B">>, <<"B", "B">>}}

\* a loop in a loop, with two item names or with one
LoopsSrc ==
  {<<"a", "a", "forax", h2>> \o body \o <<"end", "end">> :
     h2 \in {"forby", "foray"}, body \in {<<"B">>, <<"B", "B">>}}

NestSrc == NestedBlockSrc \cup RowsSrc \cup LoopsSrc \cup RepeatSrc

NestNames == {NameX, NameY, NameXs, NameYs, NameRows}

NestInput(xv, yv, xsv, ysv, rowsv) ==
  LET val(n) == CASE n = NameX -> xv
                  [] n = NameY -> yv
                  [] n = NameXs -> xsv
                  [] n = NameYs -> ysv
                  [] n = NameRows -> rowsv
      D == {n \in NestNames : val(n).k # "none"}
  IN [n \in D |-> val(n)]

NestLists == {Unbound, ListV(<<>>), ListV(Elems(MaxElems))}

\* the rows 11; 11, 12; ...
Rows == ListsV([i \in 1 .. MaxElems |-> Elems(i)])

NestInputs ==
  {NestInput(xv, yv, xsv, ysv, rowsv) :
     xv \in {Unbound, StrV(<<"h", "i">>)}, yv \in {Unbound, IntV(0)},
     xsv \in NestLists, ysv \in NestLists, rowsv \in {Unbound, Rows}}

NestInit ==
  /\ NoLibrary
  /\ OneCaller
  /\ toks \in NestSrc
  /\ buf = Flatten(toks)
  /\ processed = 0
  /\ offsetStack = <<>>
  /\ m_fragments = <<>>
  /\ m_varNames = <<>>
  /\ m_includeNames = <<>>
  /\ m_bytecode = <<>>
  /\ phase = "compile"
  /\ input = NoInput
  /\ pc = 0
  /\ stream = <<>>
  /\ currentIterators = <<>>

NestStart == StartRenderWith(NestInputs)

NestNext ==
  \/ Compile
  \/ NestStart
  \/ VmStop
  \/ VmCopy
  \/ VmSubstitute
  \/ VmImmediate
  \/ VmFalseJump
  \/ VmListEndJump
  \/ VmJump
  \/ VmInclude

NestSpec == NestInit /\ [][NestNext]_vars

-----------------------------------------------------------------------------
(* The compile of a long source: LongRun commands "$(x)" and a short tail.  *)
(* Each pass over a "$(x)" of the run appends one Substitute | 0 and moves  *)
(* processed four characters on (CompileVarSub), so the compile is taken up *)
(* in the state it has after the run, at the start of the tail.             *)

LongRun == 8190    \* the "$(x)" commands before the tail
MaxTail == 2       \* the tail: at most this many tokens

TailToks == {"a", "bs", "open", "sub", "if", "for", "end", "inc"}

LongTails == TokSeqs(TailToks, MaxTail)

\* the token names of the source with the tail t
LongToks(t) == [i \in 1 .. LongRun + Len(t) |-> IF i <= LongRun THEN "sub" ELSE t[i - LongRun]]

\* its text
LongText(t) ==
  LET run == 4 * LongRun
      tail == Flatten(t)
  IN [i \in 1 .. run + Len(tail) |->
        IF i <= run THEN TokText("sub")[((i - 1) % 4) + 1] ELSE tail[i - run]]

LongInit ==
  /\ NoLibrary
  /\ OneCaller
  /\ \E t \in LongTails : toks = LongToks(t) /\ buf = LongText(t)
  /\ processed = 4 * LongRun
  /\ offsetStack = <<>>
  /\ m_fragments = <<>>
  /\ m_varNames = <<NameX>>
  /\ m_includeNames = <<>>
  /\ m_bytecode = [i \in 1 .. LongRun |-> Word(BitOr(Substitute, 0))]
  /\ phase = "compile"
  /\ input = NoInput
  /\ pc = 0
  /\ stream = <<>>
  /\ currentIterators = <<>>

\* the passes of compile over the tail; no "$(" of the tail is at index 0 or 1,
\* so no character before the start of the source is read
LongNext ==
  \/ CompileTail
  \/ CompileEscape
  \/ CompileEnd
  \/ CompileEndEmpty
  \/ CompileVarSub
  \/ CompileIf
  \/ CompileFor
  \/ CompileInclude
  \/ CompileInvalid
  \/ CompileHalt

LongSpec == LongInit /\ [][LongNext]_vars

-----------------------------------------------------------------------------
(* What the claims speak of *)

\* render has returned: stream holds the string it returns
Done == phase = "done"

\* compile has thrown FaeException
Rejected == phase = "invalid"

\* compile has returned a Template
Returned == phase \in {"compiled", "render", "done"}

\* the source has no "$("
NoCommand == \A i \in 1 .. Len(buf) - 1 : ~(buf[i] = "$" /\ buf[i + 1] = "(")

XBound == NameX \in DOMAIN input

\* the text a value is expected to be shown as
Shown(v) ==
  CASE v = IntV(0) -> <<"0">>
    [] v = IntV(-7) -> <<"-", "7">>
    [] v = BoolV(FALSE) -> <<"f", "a", "l", "s", "e">>
    [] v = BoolV(TRUE) -> <<"t", "r", "u", "e">>
    [] v = StrV(<<>>) -> <<>>
    [] v = StrV(<<"h", "i">>) -> <<"h", "i">>

\* what $(x) is expected to emit outside a loop
XText == IF XBound THEN Shown(input[NameX]) ELSE <<>>

\* what $(x) is expected to emit in pass i of a loop over Elems(k)
ElemText(i) == <<"1", <<"1", "2", "3", "4", "5", "6", "7", "8", "9">>[i]>>

\* the number of passes expected of a loop over xs
Passes ==
  IF NameXs \in DOMAIN input /\ input[NameXs].k = "list" THEN Len(input[NameXs].l) ELSE 0

RECURSIVE Expect(_, _)
\* the expected output of tokens "a" and "sub", $(x) emitting xt
Expect(ts, xt) ==
  IF ts = <<>> THEN <<>>
  ELSE (IF Head(ts) = "sub" THEN xt ELSE TokText(Head(ts))) \o Expect(Tail(ts), xt)

RECURSIVE ExpectLoop(_, _, _)
\* the expected output of passes i .. k of a loop with this body
ExpectLoop(body, i, k) ==
  IF i > k THEN <<>> ELSE Expect(body, ElemText(i)) \o ExpectLoop(body, i + 1, k)

Texts == {<<>>, <<"a", "a">>}
FlatBodies == {<<>>, <<"sub">>, <<"a", "a">>, <<"a", "a", "sub">>, <<"sub", "a", "a">>}
FlatPosts == {<<>>, <<"sub">>, <<"a", "a">>, <<"a", "a", "sub">>}
IfAfter == <<"if", "a", "a", "end">>

-----------------------------------------------------------------------------
(* C1: every non-empty literal run before a command is emitted in its place, *)
(* for a run of one character as for longer ones: a source made of literal   *)
(* characters and $(x) commands renders to the characters and the values of  *)
(* x in source order.                                                        *)

C1_LiteralRunFlushed ==
  (Done /\ \A i \in 1 .. Len(toks) : toks[i] \in {"a", "sub"})
    => stream = Expect(toks, XText)

-----------------------------------------------------------------------------
(* C2: a source with no "$(" compiles, and renders to exactly its text       *)
(* whatever the bindings are.                                                *)

C2_NoCommandRendersSource ==
  NoCommand => /\ phase \in {"compile", "compiled", "render", "done"}
               /\ Done => stream = buf

C2_Witness ==
  /\ Done /\ NoCommand /\ XBound
  /\ Len(buf) = MaxLit
  /\ \E i \in 1 .. Len(buf) : buf[i] = "$"

-----------------------------------------------------------------------------
(* C3: the body of $(for x in xs) is rendered once per element of xs, in     *)
(* order, $(x) emitting the element of the pass; it is rendered zero times   *)
(* when xs is unbound, not a container or empty; the text after $(end)       *)
(* follows.                                                                  *)

C3_ForRendersEachElement ==
  \A pre \in Texts, body \in FlatBodies, post \in Texts :
    (Done /\ toks = pre \o <<"for">> \o body \o <<"end">> \o post)
      => stream = Flatten(pre) \o ExpectLoop(body, 1, Passes) \o Flatten(post)

C3_Witness ==
  /\ Done
  /\ toks = <<"a", "a", "for", "a", "a", "sub", "end", "a", "a">>
  /\ Passes = MaxElems
  /\ ~XBound

-----------------------------------------------------------------------------
(* C4: the body of $(if x) is rendered iff x is a key of the bindings,       *)
(* whatever its value, or the item of an active loop; otherwise nothing is   *)
(* emitted for the block.                                                    *)

C4_IfTestsPresence ==
  /\ \A pre \in Texts, body \in FlatBodies, post \in FlatPosts :
       (Done /\ toks = pre \o <<"if">> \o body \o <<"end">> \o post)
         => stream = Flatten(pre)
                       \o (IF XBound THEN Expect(body, XText) ELSE <<>>)
                       \o Expect(post, XText)
  /\ \A pre \in Texts, post \in Texts :
       (Done /\ toks = pre \o <<"for">> \o IfAfter \o <<"end">> \o post)
         => stream = Flatten(pre) \o ExpectLoop(<<"a", "a">>, 1, Passes) \o Flatten(post)

C4_Witness ==
  /\ Done
  /\ toks = <<"if", "a", "a", "end">>
  /\ XBound /\ input[NameX] = BoolV(FALSE)
  /\ stream = <<"a", "a">>

-----------------------------------------------------------------------------
(* C5: $(x) emits the stringified binding of x, and nothing when x is        *)
(* unbound and no loop item; no render raises an error.                      *)

C5_SubstituteEmitsBinding ==
  /\ phase # "thrown"
  /\ \A pre \in Texts, post \in Texts :
       (Done /\ toks = pre \o <<"sub">> \o post)
         => stream = Flatten(pre) \o XText \o Flatten(post)

C5_Witness ==
  /\ Done
  /\ toks = <<"a", "a", "sub">>
  /\ ~XBound
  /\ stream = <<"a", "a">>

-----------------------------------------------------------------------------
(* C6: inside the loop $(x) emits the current element even when x is bound;  *)
(* after the loop's $(end), $(x) emits the binding of x (or nothing) and     *)
(* $(if x) tests the binding alone.                                          *)

C6_LoopItemShadowsInsideOnly ==
  /\ \A pre \in Texts, body \in FlatBodies \ Texts, post \in FlatPosts \ Texts :
       (Done /\ toks = pre \o <<"for">> \o body \o <<"end">> \o post)
         => stream = Flatten(pre) \o ExpectLoop(body, 1, Passes) \o Expect(post, XText)
  /\ \A pre \in Texts, body \in FlatBodies :
       (Done /\ toks = pre \o <<"for">> \o body \o <<"end">> \o IfAfter)
         => stream = Flatten(pre) \o ExpectLoop(body, 1, Passes)
                       \o (IF XBound THEN <<"a", "a">> ELSE <<>>)

C6_Witness ==
  /\ Done
  /\ toks = <<"for", "sub", "end", "sub">>
  /\ XBound /\ input[NameX] = IntV(-7)
  /\ Passes = MaxElems

-----------------------------------------------------------------------------
(* C7: "$(" after a single backslash is no command: the backslash goes, "$"  *)
(* follows the text before it, and "(" and the text up to the next "$(" are  *)
(* plain literal.  Stated for a backslash that follows literal text.         *)

C7_SingleBackslashEscapes ==
  \A i \in 1 .. MaxPre, tail \in Texts :
    /\ (Done /\ toks = Rep("a", i) \o <<"bs", "sub">> \o tail)
         => stream = Flatten(Rep("a", i)) \o <<"$", "(", "x", ")">> \o Flatten(tail)
    /\ (Done /\ toks = Rep("a", i) \o <<"bs", "open", "sub">> \o tail)
         => stream = Flatten(Rep("a", i)) \o <<"$", "(">> \o XText \o Flatten(tail)

-----------------------------------------------------------------------------
(* C8: "$(" after two backslashes is a live command and one of the two       *)
(* backslashes is emitted: two backslashes and $(x) render one backslash and *)
(* the value, three render two and the value, with or without text before.   *)

C8_EscapedEscapeIsLive ==
  \A i \in 0 .. MaxPre, m \in 2 .. 3, tail \in Texts :
    (Done /\ toks = Rep("a", i) \o Rep("bs", m) \o <<"sub">> \o tail)
      => stream = Flatten(Rep("a", i)) \o Flatten(Rep("bs", m - 1)) \o XText \o Flatten(tail)

C8_Witness ==
  /\ Done
  /\ toks = <<"a", "bs", "bs", "bs", "sub">>
  /\ XBound /\ input[NameX] = IntV(0)
  /\ stream = <<"a", Backslash, Backslash, "0">>

-----------------------------------------------------------------------------
(* C9 as claimed: a run of 2k backslashes before "$(" collapses by pairs to  *)
(* k backslashes, followed by the live command's output.                     *)

C9_PairsCollapse ==
  \A i \in 0 .. MaxPre, k \in 1 .. MaxBs \div 2 :
    (Done /\ toks = Rep("a", i) \o Rep("bs", 2 * k) \o <<"sub">>)
      => stream = Flatten(Rep("a", i)) \o Flatten(Rep("bs", k)) \o XText

(* C9 amended: of a run of 2k backslashes before "$(" only the last one is   *)
(* removed: the output holds 2k - 1 backslashes, followed by the live        *)
(* command's output (four backslashes render as three).                      *)

C9_LastBackslashRemoved ==
  \A i \in 0 .. MaxPre, k \in 1 .. MaxBs \div 2 :
    (Done /\ toks = Rep("a", i) \o Rep("bs", 2 * k) \o <<"sub">>)
      => stream = Flatten(Rep("a", i)) \o Flatten(Rep("bs", 2 * k - 1)) \o XText

C9_Witness ==
  /\ Done
  /\ toks = <<"bs", "bs", "bs", "bs", "sub">>
  /\ XBound /\ input[NameX] = IntV(0)
  /\ stream = <<Backslash, Backslash, Backslash, "0">>

-----------------------------------------------------------------------------
(* C10: compile rejects every unbalanced source with FaeException: an        *)
(* $(end) with no open block, and a source that ends with a block open; no   *)
(* program with an unpatched jump (operand 0) is returned.                   *)

C10_UnbalancedRejected ==
  /\ Returned =>
       \A i \in 1 .. Len(m_bytecode) :
         OpBits(m_bytecode[i]) \in {FalseJump, ListEndJump} => Operand(m_bytecode[i]) # 0
  /\ \A pre \in Texts, h \in {"if", "for"} :
       toks = pre \o <<h>> => ~Returned
  /\ \A pre \in {<<"sub", "sub">>, <<"a", "a", "sub">>} :
       (toks = pre \o <<"end">> /\ processed = Len(Flatten(pre)) /\ phase # "compile")
         => Rejected

-----------------------------------------------------------------------------
(* C11: a "$(" that is not escaped and whose text matches none of the five   *)
(* patterns makes compile throw FaeException, and no Template is produced:   *)
(* "$()", "$(if x )", "$(if x a)", "$(x-a)", "$(for x)", "$(for x in)",      *)
(* "$(for x in xs )", "$(for x in xs a)" and the unterminated "$(x", at the  *)
(* start of the source, after text, after two backslashes and after a        *)
(* command.  After text that does not start with "$(" the compile, while it  *)
(* runs, can always take a step, and it ends in the exception.               *)

C11_InvalidCommandRejected ==
  (\E i \in 1 .. Len(toks) : toks[i] \in BadToks) =>
    \A b \in BadToks, post \in {<<>>, <<"a">>, <<"sub">>} :
      /\ \A pre \in {<<>>, <<"a">>, <<"a", "a">>, <<"bs", "bs">>, <<"sub">>, <<"if">>} :
           toks = pre \o <<b>> \o post => ~Returned /\ phase # "thrown"
      /\ \A pre \in {<<"a">>, <<"a", "a">>, <<"bs", "bs">>} :
           toks = pre \o <<b>> \o post
             => /\ phase \in {"compile", "invalid"}
                /\ phase = "compile" => ENABLED Compile

C11_Witness ==
  /\ Rejected
  /\ toks = <<"a", "a", "for2", "sub">>
  /\ processed = 0
  /\ m_fragments = <<<<"a", "a">>>>

-----------------------------------------------------------------------------
(* What the claims about the library speak of *)

GoodFile == <<"a", "a", "sub">>
BadFile == <<"a", "a", "unterm">>
LoopFile == <<"for", "if", "sub", "end", "end">>
EscapeFile == <<"a", "bs", "sub">>
IncludingFile == <<"a", "a", "inc", "a", "a", "incn">>
NestedFile == <<"a", "a">>

\* the content compiles: Template(buf) returns
Compiles(c) == c \in {GoodFile, LoopFile, EscapeFile, IncludingFile, NestedFile}

\* the Template expected of a content that compiles
ProgramOf(c) ==
  CASE c = GoodFile ->
         [fr |-> << <<"a", "a">> >>, vn |-> <<NameX>>, inc |-> <<>>,
          bc |-> <<Copy, Substitute, Halt>>]
    [] c = LoopFile ->
         [fr |-> <<>>, vn |-> <<NameX, NameXs>>, inc |-> <<>>,
          bc |-> <<Immediate, Immediate + 1, ListEndJump + 7, Immediate, FalseJump + 6,
                   Substitute, Jump + 2, Halt>>]
    [] c = EscapeFile ->
         [fr |-> << <<"a", "$">>, <<"(", "x", ")">> >>, vn |-> <<>>, inc |-> <<>>,
          bc |-> <<Copy, Copy + 1, Halt>>]
    [] c = IncludingFile ->
         [fr |-> << <<"a", "a">>, <<"a", "a">> >>, vn |-> <<>>, inc |-> <<PathT, PathNT>>,
          bc |-> <<Copy, Include, Copy + 1, Include + 1, Halt>>]
    [] c = NestedFile ->
         [fr |-> << <<"a", "a">> >>, vn |-> <<>>, inc |-> <<>>, bc |-> <<Copy, Halt>>]

\* the string expected of Library::render for a content without includes
TextOf(c) ==
  CASE c = GoodFile -> <<"a", "a">> \o XText
    [] c = LoopFile -> ExpectLoop(<<"sub">>, 1, Passes)
    [] c = EscapeFile -> <<"a", "$", "(", "x", ")">>
    [] c = NestedFile -> <<"a", "a">>

\* every Template of the map is the compilation of a content its file had
EntriesCompiled ==
  \A p \in DOMAIN m_templates :
    \E c \in Contents(p) : Compiles(c) /\ m_templates[p] = ProgramOf(c)

\* what Library::render(p, input) returns for an entry p without includes
Returns(p) ==
  TextOf(CHOOSE c \in Contents(p) : Compiles(c) /\ m_templates[p] = ProgramOf(c))

\* what an Include of target p is expected to contribute
Inserted(p) == IF p \in DOMAIN m_templates THEN Returns(p) ELSE <<>>

\* the file is one the scan of reload meets
InScope(p) == disk[p] # Absent /\ (m_recursive \/ p # PathNT)

\* a reload (or the constructor's) is between its first and its last addTemplate
Scanning == api \in {"Library", "reload"} /\ phase \in {"scan", "compile", "compiled", "invalid"}

-----------------------------------------------------------------------------
(* C12: rendered through Library::render, a Template that includes targets   *)
(* present in the library returns its own text in source order with, at     *)
(* each Include, exactly the string Library::render returns for the target  *)
(* and the same bindings.                                                    *)

C12_IncludeInsertsRender ==
  /\ EntriesCompiled
  /\ (api = "render" /\ phase = "done") =>
       /\ templateName \in {PathT, PathNT} => stream = Returns(templateName)
       /\ (templateName = PathU /\ PathT \in DOMAIN m_templates /\ PathNT \in DOMAIN m_templates)
            => stream = <<"a", "a">> \o Returns(PathT) \o <<"a", "a">> \o Returns(PathNT)

C12_Witness ==
  /\ api = "render" /\ phase = "done"
  /\ templateName = PathU
  /\ PathT \in DOMAIN m_templates /\ m_templates[PathT] = ProgramOf(LoopFile)
  /\ PathNT \in DOMAIN m_templates
  /\ XBound /\ Passes = MaxElems
  /\ Len(stream) = 6 + 2 * MaxElems

-----------------------------------------------------------------------------
(* C13: an Include whose target is not in the library contributes nothing,   *)
(* no error reaches the caller of the including render, and the rest of the  *)
(* including Template is still rendered.                                     *)

-----------------------------------------------------------------------------
(* C14: Library::render of a name that is not a key of the map throws the    *)
(* not-found FaeException and returns nothing, and of a name that is a key   *)
(* does not throw it.                                                        *)

C14_MissingNameNotFound ==
  api = "render" =>
    /\ templateName \notin DOMAIN m_templates <=> phase = "notfound"
    /\ phase = "notfound" => stream = <<>> /\ callStack = <<>>

C14_Witness ==
  /\ api = "render" /\ phase = "notfound"
  /\ templateName = PathNT
  /\ ~m_recursive /\ disk[PathNT] = NestedFile
  /\ PathT \in DOMAIN m_templates

-----------------------------------------------------------------------------
(* C15 as claimed: with ignoreBadTemplates the constructor and reload        *)
(* succeed, and when they have returned the files that fail to compile are   *)
(* absent from the map and every other file of the scan is present; without  *)
(* it the first file that fails to compile makes them throw.                 *)

C15_BadFilesAbsent ==
  /\ m_ignoreBadTemplates => phase # "libthrown"
  /\ (m_ignoreBadTemplates /\ phase = "ready") =>
       \A p \in Paths :
         InScope(p) => IF disk[p] = BadFile
                       THEN p \notin DOMAIN m_templates
                       ELSE p \in DOMAIN m_templates
  /\ (~m_ignoreBadTemplates /\ (Scanning \/ phase = "ready")) =>
       \A p \in Paths :
         (InScope(p) /\ disk[p] = BadFile) => (p \in scan \/ (p = file /\ phase # "scan"))

(* C15 amended: a file that fails to compile gets no entry from the scan:    *)
(* the map is left as it was for that name.  After the constructor and after *)
(* reload(true) the file is absent from the map; after reload(false) an      *)
(* entry compiled from an earlier content of the file is still there.  Every *)
(* other file of the scan is present; without ignoreBadTemplates the first   *)
(* file that fails to compile makes the constructor or reload throw.         *)

C15_BadFilesGetNoEntry ==
  /\ [](m_ignoreBadTemplates => phase # "libthrown")
  /\ []((m_ignoreBadTemplates /\ phase = "ready") =>
          \A p \in Paths :
            InScope(p) => IF disk[p] = BadFile
                          THEN (api = "Library" \/ discard) => p \notin DOMAIN m_templates
                          ELSE p \in DOMAIN m_templates /\ m_templates[p] = ProgramOf(disk[p]))
  /\ []((~m_ignoreBadTemplates /\ (Scanning \/ phase = "ready")) =>
          \A p \in Paths :
            (InScope(p) /\ disk[p] = BadFile) => (p \in scan \/ (p = file /\ phase # "scan")))
  /\ [][phase = "invalid" => m_templates' = m_templates]_vars

C15_Witness ==
  /\ phase = "ready" /\ api = "reload" /\ ~discard
  /\ m_ignoreBadTemplates
  /\ disk[PathT] = BadFile
  /\ PathT \in DOMAIN m_templates /\ m_templates[PathT] = ProgramOf(GoodFile)
  /\ PathU \in DOMAIN m_templates

-----------------------------------------------------------------------------
(* C16: when reload(true) has returned, the keys of the map are the paths of *)
(* the regular files of the scan (all levels with m_recursive, the top level *)
(* without) that compile, each mapped to the compilation of the file's       *)
(* current content, whatever was written, rewritten or removed before.       *)
(* During reload(false) no entry is removed, and an entry changes only by    *)
(* being replaced with the compilation of the file of that name; when it has *)
(* returned, every file of the scan that compiles is mapped to the           *)
(* compilation of its current content, and entries of removed files are      *)
(* still there.                                                              *)

C16_ReloadRebuildsMap ==
  /\ []((phase = "ready" /\ api = "reload" /\ discard) =>
          /\ DOMAIN m_templates = {p \in Paths : InScope(p) /\ Compiles(disk[p])}
          /\ \A p \in DOMAIN m_templates : m_templates[p] = ProgramOf(disk[p]))
  /\ []((phase = "ready" /\ api = "reload" /\ ~discard) =>
          \A p \in Paths :
            (InScope(p) /\ Compiles(disk[p]))
              => p \in DOMAIN m_templates /\ m_templates[p] = ProgramOf(disk[p]))
  /\ [][(Scanning /\ api = "reload" /\ ~discard) =>
          \A p \in DOMAIN m_templates :
            /\ p \in DOMAIN m_templates'
            /\ m_templates'[p] # m_templates[p] =>
                 p = file /\ Compiles(disk[p]) /\ m_templates'[p] = ProgramOf(disk[p])]_vars

C16_Witness ==
  /\ phase = "ready" /\ api = "reload" /\ ~discard
  /\ disk[PathT] = Absent
  /\ PathT \in DOMAIN m_templates /\ m_templates[PathT] = ProgramOf(EscapeFile)
  /\ disk[PathNT] = NestedFile /\ m_recursive
  /\ PathNT \in DOMAIN m_templates /\ m_templates[PathNT] = ProgramOf(NestedFile)

-----------------------------------------------------------------------------
(* C17: render(T, B) returns the same string every time: a render with the   *)
(* bindings of an earlier render whose string the caller kept returns that   *)
(* string, whatever renders of T with other bindings came before the first   *)
(* or between the two.                                                       *)

C17_SameStringEveryTime ==
  (Done /\ returned.any /\ returned.input = input) => stream = returned.out

C17_Witness ==
  /\ Done
  /\ returned.any /\ returned.input = input
  /\ toks = <<"for", "sub">>
  /\ Passes = MaxElems
  /\ stream = <<"1", "1">>
  /\ DOMAIN currentIterators # {}

-----------------------------------------------------------------------------
(* C18: two renders of one Template whose steps interleave in any order,     *)
(* each with its own bindings, return the strings they return alone; and no  *)
(* step after compile has returned changes the bytecode or one of the three  *)
(* tables.                                                                   *)

C18_InterleavedRendersIndependent ==
  /\ [](returned.any =>
          /\ (Done /\ input = returned.input) => stream = returned.out
          /\ (other.phase = "done" /\ other.input = returned.input)
               => other.stream = returned.out)
  /\ [][Returned => UNCHANGED <<m_fragments, m_varNames, m_includeNames, m_bytecode>>]_vars

C18_Witness ==
  /\ Done
  /\ returned.any /\ returned.input = input
  /\ other.phase = "render" /\ other.pc > 2 /\ other.input # input
  /\ DOMAIN other.currentIterators # {}
  /\ toks = <<"for", "if", "sub", "end", "end">>
  /\ Passes = MaxElems
  /\ Len(stream) = 2 * MaxElems

-----------------------------------------------------------------------------
(* C19: a render of a returned program that resolves no includes reaches     *)
(* Halt: every step of the dispatch loop leaves the PC on an instruction     *)
(* inside the bytecode, and no jump takes it back to PC 0.                   *)

C19_RenderStaysInsideAndHalts ==
  [][(phase = "render" /\ phase' = "render")
       => (pc' # 0 /\ pc' < Len(m_bytecode))]_vars

-----------------------------------------------------------------------------
(* C20: in every returned program each FalseJump and each ListEndJump has an *)
(* operand strictly greater than its own PC and at most the PC of the final  *)
(* Halt.                                                                     *)

C20_ConditionalJumpsForward ==
  Returned =>
    \A i \in 1 .. Len(m_bytecode) :
      OpBits(m_bytecode[i]) \in {FalseJump, ListEndJump}
        => (Operand(m_bytecode[i]) > i - 1 /\ Operand(m_bytecode[i]) <= Len(m_bytecode) - 1)

-----------------------------------------------------------------------------
(* C21: in balanced nested blocks each $(end) closes the innermost open     *)
(* head.  The inner head's jump is patched to the PC after its own end      *)
(* (after the back Jump of a for) and the outer head's to the PC after the  *)
(* outer end; a head that fails emits nothing of its block, nested blocks   *)
(* included, and the text after the matching end follows; the text between  *)
(* the two ends stays inside the outer block.                               *)

RECURSIVE RepText(_, _)
\* n copies of the text t
RepText(t, n) == IF n = 0 THEN <<>> ELSE t \o RepText(t, n - 1)

\* how many times the head h lets its body run
HeadPasses(h) ==
  LET len(n) == IF n \in DOMAIN input /\ input[n].k = "list" THEN Len(input[n].l) ELSE 0
      one(n) == IF n \in DOMAIN input THEN 1 ELSE 0
  IN CASE h = "if" -> one(NameX)
       [] h = "ify" -> one(NameY)
       [] h = "forax" -> len(NameXs)
       [] h = "forby" -> len(NameYs)

NestedBlock(h1, b1, h2, b3) ==
  <<"a", "a", h1>> \o b1 \o <<h2, "B", "B", "end">> \o b3 \o <<"end", "a", "a">>

NestedText(h1, b1, h2, b3) ==
  <<"a", "a">>
    \o RepText(Flatten(b1) \o RepText(<<"B", "B">>, HeadPasses(h2)) \o Flatten(b3),
               HeadPasses(h1))
    \o <<"a", "a">>

\* the PCs of the block heads' jumps
HeadPCs == {i \in 0 .. Len(m_bytecode) - 1 : OpBits(At(m_bytecode, i)) \in {FalseJump, ListEndJump}}

C21_EndClosesInnermost ==
  \A h1 \in Heads, h2 \in Heads, b1 \in {<<>>, <<"C", "C">>}, b3 \in {<<>>, <<"D", "D">>} :
    toks = NestedBlock(h1, b1, h2, b3) =>
      /\ phase = "compiled" =>
           LET outer == CHOOSE i \in HeadPCs : \A j \in HeadPCs : i <= j
               inner == CHOOSE i \in HeadPCs : \A j \in HeadPCs : i >= j
           IN /\ Cardinality(HeadPCs) = 2
              /\ Operand(At(m_bytecode, outer)) = Len(m_bytecode) - 2
              /\ Operand(At(m_bytecode, inner)) =
                   inner + (IF OpBits(At(m_bytecode, inner)) = ListEndJump THEN 3 ELSE 2)
      /\ Done => stream = NestedText(h1, b1, h2, b3)
      /\ (Done /\ HeadPasses(h1) = 0) => stream = <<"a", "a", "a", "a">>

\* the outer if fails while the inner loop has elements
C21_Witness ==
  /\ Done
  /\ toks = NestedBlock("if", <<"C", "C">>, "forby", <<"D", "D">>)
  /\ NameX \notin DOMAIN input
  /\ HeadPasses("forby") = MaxElems
  /\ stream = <<"a", "a", "a", "a">>

-----------------------------------------------------------------------------
(* C22: the encoding stays well-formed for sources of any size.  Every pass *)
(* of compile appends only instructions with the opcode of the command it   *)
(* parsed, an instruction keeps its opcode bits when its jump is patched,   *)
(* and the operand of a patched jump is the PC after the end, also past     *)
(* PC 0x1FFF.                                                                *)

\* the opcodes of the instructions the pass of compile about to run emits
Emitted ==
  IF ~InLoop THEN {Halt}
  ELSE IF expStart = -1 THEN {Copy}
  ELSE CASE Command = "end" -> {Copy, Jump}
         [] Command = "var" -> {Copy, Substitute}
         [] Command = "if" -> {Copy, Immediate, FalseJump}
         [] Command = "for" -> {Copy, Immediate, ListEndJump}
         [] Command = "include" -> {Copy, Include}
         [] OTHER -> {Copy}

C22_EncodingWellFormed ==
  [][phase = "compile" =>
       /\ Len(m_bytecode') >= Len(m_bytecode)
       /\ \A i \in 1 .. Len(m_bytecode) : OpBits(m_bytecode'[i]) = OpBits(m_bytecode[i])
       /\ \A i \in Len(m_bytecode) + 1 .. Len(m_bytecode') : OpBits(m_bytecode'[i]) \in Emitted
       /\ Len(offsetStack') < Len(offsetStack) =>
            Operand(m_bytecode'[offsetStack[Len(offsetStack)] + 1]) = Len(m_bytecode')]_vars

-----------------------------------------------------------------------------
(* C23: compile reads no source character at an index outside [0, length):  *)
(* every index read for the backslash checks is inside the source, and a    *)
(* "$(" at index 0 is parsed as a live command.                             *)

C23_CompileReadsInsideSource ==
  [][(InLoop /\ expStart # -1) =>
       /\ \A i \in BackslashReads : 0 <= i /\ i < Len(buf)
       /\ expStart = 0 => phase' \notin {"crash", "corrupt"}]_vars

-----------------------------------------------------------------------------
(* C24: during a render of a balanced template the keys of the iterator map *)
(* are item indices of for blocks that enclose the current PC, so the map   *)
(* holds at most as many entries as for blocks are nested; an entry appears *)
(* only when a ListEndJump enters a container that is not empty, with the   *)
(* cursor on the first element; it is removed only by the ListEndJump of    *)
(* its item when the cursor is on the last element, and then it is removed; *)
(* the map is empty when Halt executes.                                     *)

\* compile met an end for every head and no other end
Balanced == offsetStack = <<>>

\* the PCs of the ListEndJumps whose block (head to back Jump) holds the PC q
EnclosingLoops(q) ==
  {p \in 2 .. Len(m_bytecode) - 1 :
     /\ OpBits(At(m_bytecode, p)) = ListEndJump
     /\ p <= q /\ q < Operand(At(m_bytecode, p))}

ItemOf(p) == Operand(At(m_bytecode, p - 2))

ListOf(p) == At(m_varNames, Operand(At(m_bytecode, p - 1)))

\* the deepest nesting of for blocks in the program
ForDepth ==
  LET D == {Cardinality(EnclosingLoops(q)) : q \in 0 .. Len(m_bytecode) - 1}
  IN CHOOSE d \in D \cup {0} : \A e \in D : e <= d

\* the render is running and its iterators are defined
Rendering == phase = "render" /\ Balanced /\ pc < Len(m_bytecode)

C24_IteratorsWithinEnclosingLoops ==
  /\ [](Rendering =>
          /\ DOMAIN currentIterators \subseteq {ItemOf(p) : p \in EnclosingLoops(pc)}
          /\ Cardinality(DOMAIN currentIterators) <= ForDepth)
  /\ []((Done /\ Balanced) => currentIterators = NoIterators)
  /\ [][(Rendering /\ phase' = "render") =>
          /\ \A k \in DOMAIN currentIterators' \ DOMAIN currentIterators :
               /\ OpBits(op) = ListEndJump /\ ItemOf(pc) = k
               /\ ListOf(pc) \in DOMAIN input
               /\ IsContainer(input[ListOf(pc)]) /\ Len(input[ListOf(pc)].l) > 0
               /\ currentIterators'[k] = [cont |-> ListOf(pc), pos |-> 0]
          /\ \A k \in DOMAIN currentIterators \ DOMAIN currentIterators' :
               /\ OpBits(op) = ListEndJump /\ ItemOf(pc) = k
               /\ currentIterators[k].pos + 1 = Len(input[currentIterators[k].cont].l)
          /\ \A k \in DOMAIN currentIterators \cap DOMAIN currentIterators' :
               (/\ OpBits(op) = ListEndJump /\ ItemOf(pc) = k
                /\ ListOf(pc) \in DOMAIN input
                /\ IsContainer(input[ListOf(pc)]) /\ Len(input[ListOf(pc)].l) > 0)
                 => currentIterators[k].pos + 1 < Len(input[currentIterators[k].cont].l)]_vars

\* inside the inner of two nested loops, each with its entry
C24_Witness ==
  /\ Rendering
  /\ toks = NestedBlock("forax", <<"C", "C">>, "forby", <<"D", "D">>)
  /\ Cardinality(EnclosingLoops(pc)) = 2
  /\ DOMAIN currentIterators = {ItemOf(p) : p \in EnclosingLoops(pc)}
  /\ ForDepth = 2
  /\ \A k \in DOMAIN currentIterators : currentIterators[k].pos = MaxElems - 1

-----------------------------------------------------------------------------
(* C25: the container name of a for block is looked up in the bindings only. *)
(* In "$(for r in rows)$(for c in r)B$(end)$(end)" with no binding named r   *)
(* the inner advance finds no container on any outer pass: it leaves the     *)
(* iterator map alone and jumps past the inner block, and no B is rendered, *)
(* although r is an active loop item whose current element is a container.   *)

\* the item r is on a row of rows
OnRow ==
  \E k \in DOMAIN currentIterators :
    /\ At(m_varNames, k) = NameR
    /\ currentIterators[k].cont = NameRows
    /\ Len(At(input[NameRows].l, currentIterators[k].pos)) > 0

C25_ContainerNameFromBindingsOnly ==
  /\ []((toks \in RowsSrc /\ Returned /\ NameR \notin DOMAIN input) =>
          /\ \A i \in 1 .. Len(stream) : stream[i] # "B"
          /\ \A k \in DOMAIN currentIterators : At(m_varNames, k) # NameC)
  /\ [][(toks \in RowsSrc /\ Rendering /\ NameR \notin DOMAIN input
           /\ OpBits(op) = ListEndJump /\ ListOf(pc) = NameR) =>
          /\ currentIterators' = currentIterators
          /\ pc' = Operand(op)
          /\ pc' > pc + 1]_vars

\* the inner head is reached on the last row, and nothing was rendered for the rows before
C25_Witness ==
  /\ toks = <<"a", "a", "forrows", "forcr", "B", "B", "end", "end">>
  /\ Rendering
  /\ NameR \notin DOMAIN input
  /\ OpBits(op) = ListEndJump /\ ListOf(pc) = NameR
  /\ OnRow
  /\ \E k \in DOMAIN currentIterators : currentIterators[k].pos = MaxElems - 1
  /\ stream = <<"a", "a">>

-----------------------------------------------------------------------------
(* C26: nested loops each iterate their own container.  In                   *)
(* "$(for a in xs)$(for b in ys)B$(end)$(end)" the body is rendered          *)
(* |xs| * |ys| times, and a stored cursor is advanced and compared only      *)
(* with the end of the container it was created from, also when both loops   *)
(* use one item name.                                                        *)

\* how many elements of the text s are the character c
RECURSIVE Count(_, _)
Count(s, c) == IF s = <<>> THEN 0 ELSE (IF Head(s) = c THEN 1 ELSE 0) + Count(Tail(s), c)

C26_NestedLoopsOwnContainers ==
  /\ [](\A h2 \in {"forby", "foray"}, body \in {<<"B">>, <<"B", "B">>} :
          (Done /\ toks = <<"a", "a", "forax", h2>> \o body \o <<"end", "end">>) =>
            Count(stream, "B") = Len(body) * HeadPasses("forax") * HeadPasses("forby"))
  /\ [][(toks \in LoopsSrc /\ Rendering /\ OpBits(op) = ListEndJump
           /\ ItemOf(pc) \in DOMAIN currentIterators
           /\ ListOf(pc) \in DOMAIN input /\ IsContainer(input[ListOf(pc)])
           /\ Len(input[ListOf(pc)].l) > 0) =>
          currentIterators[ItemOf(pc)].cont = ListOf(pc)]_vars

-----------------------------------------------------------------------------
(* C27: an included Template is rendered with the bindings of the including *)
(* render and an iterator map of its own.  With the include inside a loop   *)
(* over xs whose item is x, the included "$(x)" emits the binding x or      *)
(* nothing, the included "$(if x)" tests the binding x, a loop of the       *)
(* included Template runs over all of xs, and after each include the        *)
(* including loop goes on with its own cursor: it emits its element and     *)
(* makes one pass for each element of xs.                                   *)

IfFile == <<"a", "a", "if", "a", "a", "end">>
SelfFile == <<"a", "a", "inc">>
CycleFile == <<"a", "a", "incu">>
TwiceFile == <<"a", "a", "for", "for", "end", "end">>
LoopIncFile == <<"a", "a", "for", "inc", "sub", "end">>

\* what the Template of t contributes at an Include, under the bindings alone
IncludedText ==
  CASE disk[PathT] = Absent -> <<>>
    [] disk[PathT] = GoodFile -> <<"a", "a">> \o XText
    [] disk[PathT] = IfFile -> <<"a", "a">> \o (IF XBound THEN <<"a", "a">> ELSE <<>>)
    [] disk[PathT] = LoopFile -> ExpectLoop(<<"sub">>, 1, Passes)

RECURSIVE LoopIncText(_, _)
\* passes i .. k of the loop of LoopIncFile: the include, then the loop's element
LoopIncText(i, k) ==
  IF i > k THEN <<>> ELSE IncludedText \o ElemText(i) \o LoopIncText(i + 1, k)

C27_IncludeHasOwnIterators ==
  /\ (phase = "render" /\ Balanced /\ pc < Len(m_bytecode)) =>
       DOMAIN currentIterators \subseteq {ItemOf(p) : p \in EnclosingLoops(pc)}
  /\ (/\ api = "render" /\ phase = "done"
      /\ templateName = PathU /\ disk[PathU] = LoopIncFile
      /\ disk[PathT] \in {Absent, GoodFile, IfFile, LoopFile}) =>
       stream = <<"a", "a">> \o LoopIncText(1, Passes)

\* the include of "aa$(x)" in every pass of the loop, x bound
C27_Witness ==
  /\ api = "render" /\ phase = "done"
  /\ templateName = PathU /\ disk[PathU] = LoopIncFile
  /\ disk[PathT] = GoodFile
  /\ XBound /\ Passes = MaxElems
  /\ Len(stream) = 2 + 6 * MaxElems

-----------------------------------------------------------------------------
(* C28: Library::render has no cycle detection and no depth limit.  Once a   *)
(* Template is rendered inside a render of itself, every further Include of  *)
(* the cycle starts one more nested render and no render of the nest         *)
(* returns; and when the include graph reachable from the Template rendered  *)
(* has no cycle (all blocks being balanced), the render terminates.          *)

\* the Template of a suspended render
ProgramIn(f) == [fr |-> f.fr, vn |-> f.vn, inc |-> f.inc, bc |-> f.bc]

\* the Template being rendered is also one of the suspended renders
Reentered ==
  /\ phase = "render" /\ api = "render"
  /\ \E i \in 1 .. Len(callStack) : ProgramIn(callStack[i]) = Program

\* the templates of the library the Template P includes
Targets(P) == {P.inc[i] : i \in 1 .. Len(P.inc)} \cap DOMAIN m_templates

IncludeStep(S) == S \cup UNION {Targets(m_templates[q]) : q \in S}

\* the templates reached from p through one include or more
ReachFrom(p) == IncludeStep(IncludeStep(IncludeStep(Targets(m_templates[p]))))

Cyclic(p) == \E q \in {p} \cup ReachFrom(p) : q \in ReachFrom(q)

C28_IncludeCyclesUnbounded ==
  /\ [][Reentered =>
          /\ phase' = "render" /\ Reentered'
          /\ Len(callStack') >= Len(callStack)]_vars
  /\ (phase = "render" /\ api = "render" /\ ~Cyclic(templateName))
       ~> (phase # "render" \/ Len(stream) > MaxOut)

-----------------------------------------------------------------------------
(* C29: a failed reload is not atomic.  Without ignoreBadTemplates,          *)
(* reload(true) empties the map before its first addTemplate, and when a     *)
(* file fails to compile the exception leaves reload with the map as the     *)
(* scan had built it so far: its keys are the regular files the scan met     *)
(* before the failing one, each mapped to the compilation of its content,    *)
(* and the failing file and the files not yet met have no entry, so that     *)
(* Library::render of one of them is not-found although its file compiles.   *)

\* reload(true) has thrown and the caller has the Library back
FailedReload == phase = "libthrown" /\ api = "reload" /\ discard

\* the regular files the scan met before the file that failed
MetBefore == {p \in Paths : InScope(p)} \ (scan \cup {file})

C29_FailedReloadNotAtomic ==
  /\ [](FailedReload =>
          /\ ~m_ignoreBadTemplates
          /\ file \in Paths /\ InScope(file) /\ ~Compiles(disk[file])
          /\ DOMAIN m_templates = MetBefore
          /\ \A p \in DOMAIN m_templates :
               Compiles(disk[p]) /\ m_templates[p] = ProgramOf(disk[p]))
  /\ [][(Idle /\ phase' = "scan" /\ discard') => m_templates' = NoTemplates]_vars
  /\ [][(phase # "libthrown" /\ phase' = "libthrown") => m_templates' = m_templates]_vars
  /\ [][(FailedReload /\ api' = "render" /\ templateName' \notin MetBefore)
          => phase' = "notfound"]_vars

C29_Witness ==
  /\ FailedReload
  /\ m_recursive
  /\ file = PathT
  /\ DOMAIN m_templates = {PathU}
  /\ PathNT \in scan /\ disk[PathNT] = NestedFile

====
